---- MODULE Spec2Model ----
(***************************************************************************)
(* A model of nosqlite: the predicate (clause) algebra of clause.go, the   *)
(* statements that Table and TableWithTx build from it, and the engine     *)
(* behind store.db / Transaction.tx as far as those statements use it.     *)
(*                                                                         *)
(* Text is modelled as a sequence of lexical chunks (words, punctuation,   *)
(* quote characters), white space left out: "(data->>'$.name' = ?)" is     *)
(* <<"(", "data", "->>", "'", "$", ".", "name", "'", "=", "?", ")">>.      *)
(* A string (a field path, a string value, a document's name) is such a    *)
(* sequence too, so that a quote inside it is a chunk of its own.          *)
(* The chunk "bq" stands for the backquote character.                      *)
(***************************************************************************)
EXTENDS Integers, Sequences, FiniteSets, TLC

VARIABLES
    db,      \* the engine behind Store.db: committed rows, transactions, schema
    abs,     \* what the documented contract says each view holds (history variable)
    cl,      \* the clause under construction (clause algebra)
    made     \* how cl was constructed: the caller's inputs (history variable)

vars == <<db, abs, cl, made>>

-----------------------------------------------------------------------------
(* Bounds *)

MaxRows == 2
MaxDepth == 2

-----------------------------------------------------------------------------
(* Go values: T string | number | bool, and any *)

StrV(s) == [s |-> s, t |-> "string", n |-> 0]
IntV(n) == [s |-> <<>>, t |-> "int", n |-> n]
Int64V(n) == [s |-> <<>>, t |-> "int64", n |-> n]
BoolV(b) == [s |-> <<>>, t |-> "bool", n |-> IF b THEN 1 ELSE 0]

\* fmt.Sprintf("%v", v) of a number or a bool, as a string value
Sprintf_v(v) ==
    IF v.t = "string" THEN v
    ELSE IF v.t = "bool" THEN StrV(<<IF v.n = 1 THEN "true" ELSE "false">>)
    ELSE StrV(<<ToString(v.n)>>)

RECURSIVE Join(_, _)
\* strings.Join over chunk sequences
Join(parts, sep) ==
    IF Len(parts) = 0 THEN <<>>
    ELSE IF Len(parts) = 1 THEN parts[1]
    ELSE parts[1] \o sep \o Join(Tail(parts), sep)

RECURSIVE Concat(_)
Concat(lists) ==
    IF Len(lists) = 0 THEN <<>> ELSE lists[1] \o Concat(Tail(lists))

-----------------------------------------------------------------------------
(* clause.go *)

equalsOperator == "="
lessThanOperator == "<"
greaterThanOperator == ">"
lessThanOrEqualOperator == "<="
greaterThanOrEqualOperator == ">="
notEqualsOperator == "!="
likeOperator == "LIKE"

andCombinator == "AND"
orCombinator == "OR"

jsonField(field) == <<"data", "->>", "'">> \o field \o <<"'">>

mapToParameter(values) == [i \in 1..Len(values) |-> <<"?">>]

singleClause(c) ==
    <<"(", "EXISTS", "(", "SELECT", "1", "FROM", "json_each", "(">>
        \o jsonField(c.Field)
        \o <<")", "WHERE", "json_each.value", "=", "?", ")", ")">>

\* an Or of no children that is false of every row
combinatorClause_Clause_EmptyOrFalse(c) ==
    IF Len(c.clauses) = 0
    THEN (IF c.combinator = orCombinator THEN <<"(", "1", "==", "0", ")">>
          ELSE <<"(", "1", "==", "1", ")">>)
    ELSE <<"(">> \o Join(c.clauseStrings, <<c.combinator>>) \o <<")">>

combinatorClause_Clause(c) ==
    IF Len(c.clauses) = 0 THEN <<"(", "1", "==", "1", ")">>
    ELSE <<"(">> \o Join(c.clauseStrings, <<c.combinator>>) \o <<")">>

\* a comparison rendered with its value written into the text
condition_Clause_Inline(c) ==
    <<"(">> \o jsonField(c.Field) \o <<c.Operator, "'">> \o Sprintf_v(c.Value).s \o <<"'", ")">>

condition_Clause(c) ==
    <<"(">> \o jsonField(c.Field) \o <<c.Operator, "?", ")">>

\* a membership test that is true of every row when no value is given
inCondition_Clause_EmptyTrue(c) ==
    IF c.values = <<>> THEN <<"(", "1", "==", "1", ")">>
    ELSE <<"(">> \o jsonField(c.Field) \o <<"IN", "(">>
            \o Join(mapToParameter(c.values), <<",">>) \o <<")", ")">>

inCondition_Clause(c) ==
    <<"(">> \o jsonField(c.Field) \o <<"IN", "(">>
        \o Join(mapToParameter(c.values), <<",">>) \o <<")", ")">>

betweenCondition_Clause(c) ==
    <<"(">> \o jsonField(c.Field) \o <<"BETWEEN", "?", "AND", "?", ")">>

\* a containment test whose subqueries are always joined by AND
containsCondition_Clause_AlwaysAnd(c) ==
    IF Len(c.values) = 1 THEN singleClause(c)
    ELSE <<"(">>
            \o Join([i \in 1..Len(c.values) |-> singleClause(c)], <<andCombinator>>)
            \o <<")">>

containsCondition_Clause(c) ==
    IF Len(c.values) = 1 THEN singleClause(c)
    ELSE <<"(">>
            \o Join([i \in 1..Len(c.values) |-> singleClause(c)], <<c.combinator>>)
            \o <<")">>

\* Clause.Clause(), dispatched on the dynamic type
Clause(c) ==
    CASE c.kind = "combinator" -> combinatorClause_Clause(c)
      [] c.kind = "condition" -> condition_Clause(c)
      [] c.kind = "in" -> inCondition_Clause(c)
      [] c.kind = "between" -> betweenCondition_Clause(c)
      [] c.kind = "contains" -> containsCondition_Clause(c)

condition_Values(c) ==
    IF c.Value.t = "string" THEN <<c.Value>>
    ELSE IF c.Value.t \in {"int", "float64", "bool"} THEN <<c.Value>>
    ELSE <<Sprintf_v(c.Value)>>

\* Clause.Values(), dispatched on the dynamic type
Values(c) ==
    CASE c.kind = "combinator" -> c.values
      [] c.kind = "condition" -> condition_Values(c)
      [] c.kind = "in" -> c.values
      [] c.kind = "between" -> <<c.From, c.To>>
      [] c.kind = "contains" -> c.values

\* a combinator that gathers the values of its children last child first
combine_LastFirst(combinator, clauses) ==
    [values |-> Concat([i \in 1..Len(clauses) |-> Values(clauses[Len(clauses) + 1 - i])]),
     clauses |-> clauses,
     combinator |-> combinator,
     clauseStrings |-> [i \in 1..Len(clauses) |-> Clause(clauses[i])],
     kind |-> "combinator"]

combine(combinator, clauses) ==
    [values |-> Concat([i \in 1..Len(clauses) |-> Values(clauses[i])]),
     clauses |-> clauses,
     combinator |-> combinator,
     clauseStrings |-> [i \in 1..Len(clauses) |-> Clause(clauses[i])],
     kind |-> "combinator"]

And(clauses) == combine(andCombinator, clauses)
Or(clauses) == combine(orCombinator, clauses)
All == And(<<>>)

newCondition(field, value, op) ==
    [Field |-> field, Operator |-> op, Value |-> value, kind |-> "condition"]

Equal(field, value) == newCondition(field, value, equalsOperator)
NotEqual(field, value) == newCondition(field, value, notEqualsOperator)
LessThan(field, value) == newCondition(field, value, lessThanOperator)
GreaterThan(field, value) == newCondition(field, value, greaterThanOperator)
LessThanOrEqual(field, value) == newCondition(field, value, lessThanOrEqualOperator)
GreaterThanOrEqual(field, value) == newCondition(field, value, greaterThanOrEqualOperator)
Like(field, value) == newCondition(field, value, likeOperator)

In(field, values) == [values |-> values, Field |-> field, kind |-> "in"]

Between(field, from, to) ==
    [Field |-> field, kind |-> "between", From |-> from, To |-> to]

newContainsCondition(field, combinator, values) ==
    [values |-> values, Field |-> field, combinator |-> combinator, kind |-> "contains"]

ContainsAll(field, values) == newContainsCondition(field, andCombinator, values)
ContainsAny(field, values) == newContainsCondition(field, orCombinator, values)
Contains(field, value) == ContainsAll(field, <<value>>)

\* a fluent And that puts its argument first
condition_And_Swapped(c, other) == And(<<other, c>>)

\* the fluent methods, one pair per implementation of Clause
combinatorClause_And(c, other) == And(<<c, other>>)
combinatorClause_Or(c, other) == Or(<<c, other>>)
condition_And(c, other) == And(<<c, other>>)
condition_Or(c, other) == Or(<<c, other>>)
inCondition_And(c, other) == And(<<c, other>>)
inCondition_Or(c, other) == Or(<<c, other>>)
betweenCondition_And(c, other) == And(<<c, other>>)
betweenCondition_Or(c, other) == Or(<<c, other>>)
containsCondition_And(c, other) == And(<<c, other>>)
containsCondition_Or(c, other) == Or(<<c, other>>)

\* c.And(other), dispatched on the dynamic type of c
FluentAnd(c, other) ==
    CASE c.kind = "combinator" -> combinatorClause_And(c, other)
      [] c.kind = "condition" -> condition_And(c, other)
      [] c.kind = "in" -> inCondition_And(c, other)
      [] c.kind = "between" -> betweenCondition_And(c, other)
      [] c.kind = "contains" -> containsCondition_And(c, other)

\* c.Or(other), dispatched on the dynamic type of c
FluentOr(c, other) ==
    CASE c.kind = "combinator" -> combinatorClause_Or(c, other)
      [] c.kind = "condition" -> condition_Or(c, other)
      [] c.kind = "in" -> inCondition_Or(c, other)
      [] c.kind = "between" -> betweenCondition_Or(c, other)
      [] c.kind = "contains" -> containsCondition_Or(c, other)

-----------------------------------------------------------------------------
(* Records and their JSON encoding (encoding/json, with the tags of Foo:   *)
(* every field omitempty; a struct field is never omitted)                 *)

NewFoo(id, name, barName, list) ==
    [Id |-> id, Name |-> name, Bar |-> [Name |-> barName], List |-> list]

\* a json.Marshal that leaves out the nested record's name
Marshal_OmitsBar(foo) ==
    [id |-> foo.Id, name |-> foo.Name, list |-> foo.List,
     keys |-> {"bar"}
                \cup (IF foo.Id # 0 THEN {"id"} ELSE {})
                \cup (IF foo.Name # <<>> THEN {"name"} ELSE {})
                \cup (IF foo.List # <<>> THEN {"list"} ELSE {}),
     barname |-> foo.Bar.Name]

\* json.Marshal: a zero number, an empty string and an empty list are left out
Marshal(foo) ==
    [id |-> foo.Id, name |-> foo.Name, list |-> foo.List,
     keys |-> {"bar"}
                \cup (IF foo.Id # 0 THEN {"id"} ELSE {})
                \cup (IF foo.Name # <<>> THEN {"name"} ELSE {})
                \cup (IF foo.Bar.Name # <<>> THEN {"bar.name"} ELSE {})
                \cup (IF foo.List # <<>> THEN {"list"} ELSE {}),
     barname |-> foo.Bar.Name]

\* json.Unmarshal into a zero Foo: a key that is absent leaves the zero value
Unmarshal(doc) ==
    NewFoo(IF "id" \in doc.keys THEN doc.id ELSE 0,
           IF "name" \in doc.keys THEN doc.name ELSE <<>>,
           IF "bar.name" \in doc.keys THEN doc.barname ELSE <<>>,
           IF "list" \in doc.keys THEN doc.list ELSE <<>>)

-----------------------------------------------------------------------------
(* The engine's values and the driver's binding of Go values *)

SqlNull == [s |-> <<>>, t |-> "null", n |-> 0, l |-> <<>>]
SqlInt(n) == [s |-> <<>>, t |-> "integer", n |-> n, l |-> <<>>]
SqlText(s) == [s |-> s, t |-> "text", n |-> 0, l |-> <<>>]
SqlArray(l) == [s |-> <<>>, t |-> "array", n |-> 0, l |-> l]
SqlBool(b) == SqlInt(IF b THEN 1 ELSE 0)

\* database/sql's default converter and the driver: a string binds as TEXT,
\* an integer or a bool as INTEGER, a float64 as REAL (whole numbers only here)
Bind(v) ==
    IF v.t = "string" THEN SqlText(v.s) ELSE SqlInt(v.n)

BindAll(values) == [i \in 1..Len(values) |-> Bind(values[i])]

\* The decimal numerals the model's statements can hold
Numerals == {ToString(n) : n \in 0..(MaxRows + 3)}
Atoi(w) == CHOOSE n \in 0..(MaxRows + 3) : ToString(n) = w

\* data ->> path on a stored document: '$.key' and the bare label 'key'
JsonExtract(doc, path) ==
    LET p == IF Len(path) >= 2 /\ path[1] = "$" /\ path[2] = "."
             THEN SubSeq(path, 3, Len(path)) ELSE path
    IN  IF p = <<"id">> /\ "id" \in doc.keys THEN SqlInt(doc.id)
        ELSE IF p = <<"name">> /\ "name" \in doc.keys THEN SqlText(doc.name)
        ELSE IF p = <<"bar", ".", "name">> /\ path # p /\ "bar.name" \in doc.keys
             THEN SqlText(doc.barname)
        ELSE IF p = <<"list">> /\ "list" \in doc.keys THEN SqlArray(doc.list)
        ELSE SqlNull

\* The engine's order on TEXT values, for the strings the model uses
TextOrder == <<<<"a">>, <<"b">>, <<"c">>>>
TextRank(s) ==
    IF \E i \in 1..Len(TextOrder) : TextOrder[i] = s
    THEN CHOOSE i \in 1..Len(TextOrder) : TextOrder[i] = s
    ELSE Len(TextOrder) + 1

\* -1, 0, 1 as the engine orders two non-NULL values without affinity:
\* numbers before text, numbers by value, text by collation
SqlCompare(a, b) ==
    IF a.t = "integer" /\ b.t = "integer"
    THEN (IF a.n < b.n THEN -1 ELSE IF a.n = b.n THEN 0 ELSE 1)
    ELSE IF a.t = "integer" THEN -1
    ELSE IF b.t = "integer" THEN 1
    ELSE IF a.t = "text" /\ b.t = "text"
    THEN (IF a.s = b.s THEN 0
          ELSE IF TextRank(a.s) <= TextRank(b.s) THEN -1 ELSE 1)
    ELSE IF a.t = "text" THEN -1
    ELSE IF b.t = "text" THEN 1
    ELSE (IF a.l = b.l THEN 0 ELSE -1)

RECURSIVE LikeMatch(_, _)
\* LIKE on chunk sequences: the chunk "%" matches any run of chunks
LikeMatch(s, pat) ==
    IF Len(pat) = 0 THEN Len(s) = 0
    ELSE IF pat[1] = "%"
    THEN LikeMatch(s, Tail(pat)) \/ (Len(s) > 0 /\ LikeMatch(Tail(s), pat))
    ELSE Len(s) > 0 /\ s[1] = pat[1] /\ LikeMatch(Tail(s), Tail(pat))

\* whether the order c of two values (-1, 0, 1) satisfies the operator
Satisfies(op, c) ==
    CASE op \in {"=", "=="} -> c = 0
      [] op = "!=" -> c # 0
      [] op = "<" -> c < 0
      [] op = "<=" -> c <= 0
      [] op = ">" -> c > 0
      [] op = ">=" -> c >= 0

\* A comparison operator applied to two values: NULL if either is NULL
SqlOp(op, a, b) ==
    IF a.t = "null" \/ b.t = "null" THEN SqlNull
    ELSE IF op = "LIKE" THEN SqlBool(a.t = "text" /\ b.t = "text" /\ LikeMatch(a.s, b.s))
    ELSE SqlBool(Satisfies(op, SqlCompare(a, b)))

\* The truth value of a value in a boolean context: "T", "F" or "N" (NULL)
Truth(v) ==
    IF v.t = "null" THEN "N"
    ELSE IF v.t = "integer" THEN (IF v.n # 0 THEN "T" ELSE "F")
    ELSE IF v.t = "text" /\ Len(v.s) = 1 /\ v.s[1] \in Numerals
    THEN (IF Atoi(v.s[1]) # 0 THEN "T" ELSE "F")
    ELSE "F"

OfTruth(tv) == IF tv = "N" THEN SqlNull ELSE SqlBool(tv = "T")

SqlAnd(a, b) ==
    LET x == Truth(a)  y == Truth(b)
    IN  OfTruth(IF x = "F" \/ y = "F" THEN "F"
                ELSE IF x = "N" \/ y = "N" THEN "N" ELSE "T")

SqlOr(a, b) ==
    LET x == Truth(a)  y == Truth(b)
    IN  OfTruth(IF x = "T" \/ y = "T" THEN "T"
                ELSE IF x = "N" \/ y = "N" THEN "N" ELSE "F")

-----------------------------------------------------------------------------
(* The engine's reading of a statement's text: the tokenizer, then the     *)
(* expression grammar (OR < AND < = == != LIKE IN BETWEEN < relational)    *)
(* evaluated against one stored document and the bound arguments.          *)

Word(w) == [v |-> <<w>>, k |-> "w"]
Str(s) == [v |-> s, k |-> "s"]

RECURSIVE StringEnd(_, _)
\* The index of the quote that closes a string literal whose content starts
\* at i (a doubled quote is an escaped quote), or 0 if it is never closed
StringEnd(text, i) ==
    IF i > Len(text) THEN 0
    ELSE IF text[i] = "'"
    THEN (IF i < Len(text) /\ text[i + 1] = "'" THEN StringEnd(text, i + 2) ELSE i)
    ELSE StringEnd(text, i + 1)

RECURSIVE Unescape(_)
Unescape(s) ==
    IF Len(s) = 0 THEN <<>>
    ELSE IF Len(s) >= 2 /\ s[1] = "'" /\ s[2] = "'" THEN <<"'">> \o Unescape(SubSeq(s, 3, Len(s)))
    ELSE <<s[1]>> \o Unescape(Tail(s))

\* the first chunk from i on that opens a string literal or a comment, or
\* the end of the text
NextMark(text, i) ==
    IF \E j \in i..Len(text) : text[j] \in {"'", "--"}
    THEN CHOOSE j \in i..Len(text) :
            text[j] \in {"'", "--"} /\ \A k \in i..(j - 1) : text[k] \notin {"'", "--"}
    ELSE Len(text) + 1

WordsOf(text, i, j) == [k \in 1..(j - i) |-> Word(text[i + k - 1])]

RECURSIVE Lex(_, _)
\* The tokens of text from chunk i on: a comment runs to the end of the
\* statement, a quote opens a string literal
LexFrom(text, i, m, j) ==
    IF m > Len(text) \/ text[m] = "--" THEN [ok |-> TRUE, out |-> WordsOf(text, i, m)]
    ELSE IF j = 0 THEN [ok |-> FALSE, out |-> <<>>]
    ELSE [ok |-> Lex(text, j + 1).ok,
          out |-> WordsOf(text, i, m) \o <<Str(Unescape(SubSeq(text, m + 1, j - 1)))>>
                    \o Lex(text, j + 1).out]

LexTo(text, i, m) == LexFrom(text, i, m, IF m > Len(text) THEN 0 ELSE StringEnd(text, m + 1))

Lex(text, i) == LexTo(text, i, NextMark(text, i))

IsWord(c, i, w) == i <= Len(c.L) /\ c.L[i] = Word(w)
IsWordIn(c, i, ws) == i <= Len(c.L) /\ c.L[i].k = "w" /\ c.L[i].v[1] \in ws
IsStr(c, i) == i <= Len(c.L) /\ c.L[i].k = "s"

Fail == [v |-> SqlNull, i |-> 0, a |-> 0, x |-> SqlNull, ok |-> FALSE]
Got(v, i, a) == [v |-> v, i |-> i, a |-> a, x |-> SqlNull, ok |-> TRUE]
At(i, a) == Got(SqlNull, i, a)

\* json_each(array) ... WHERE json_each.value = x
ExistsIn(arr, x) ==
    IF arr.t # "array" \/ x.t = "null" THEN SqlBool(FALSE)
    ELSE SqlBool(\E k \in 1..Len(arr.l) : SqlCompare(SqlText(arr.l[k]), x) = 0)

Between3(x, lo, hi) == SqlAnd(SqlOp(">=", x, lo), SqlOp("<=", x, hi))

RECURSIVE Parse(_, _, _)
\* The grammar rule m applied at l: a rule that starts an expression reads
\* from token l.i with the next placeholder taking argument l.a; a Tail rule
\* continues after the operand l.  The result is [ok, v, i, a]: the value,
\* the next token and the next argument.  In rule "list", l.x is the value
\* whose membership is computed: 1 if a member equals it, else NULL if one
\* is NULL, else 0.
Parse(c, m, l) ==
    IF ~l.ok THEN Fail
    ELSE CASE m = "or" -> Parse(c, "orTail", Parse(c, "and", l))
      [] m = "orTail" ->
            IF IsWord(c, l.i, "OR")
            THEN LET r == Parse(c, "and", At(l.i + 1, l.a))
                 IN  Parse(c, "orTail", IF r.ok THEN Got(SqlOr(l.v, r.v), r.i, r.a) ELSE Fail)
            ELSE l
      [] m = "and" -> Parse(c, "andTail", Parse(c, "eq", l))
      [] m = "andTail" ->
            IF IsWord(c, l.i, "AND")
            THEN LET r == Parse(c, "eq", At(l.i + 1, l.a))
                 IN  Parse(c, "andTail", IF r.ok THEN Got(SqlAnd(l.v, r.v), r.i, r.a) ELSE Fail)
            ELSE l
      [] m = "eq" -> Parse(c, "eqTail", Parse(c, "rel", l))
      [] m = "eqTail" ->
            IF IsWordIn(c, l.i, {"=", "==", "!=", "LIKE"})
            THEN LET r == Parse(c, "rel", At(l.i + 1, l.a))
                 IN  Parse(c, "eqTail",
                           IF r.ok THEN Got(SqlOp(c.L[l.i].v[1], l.v, r.v), r.i, r.a) ELSE Fail)
            ELSE IF IsWord(c, l.i, "IN")
            THEN (IF ~IsWord(c, l.i + 1, "(") THEN Fail
                  ELSE IF IsWord(c, l.i + 2, ")")
                  THEN Parse(c, "eqTail", Got(SqlBool(FALSE), l.i + 3, l.a))
                  ELSE Parse(c, "eqTail",
                             Parse(c, "list", [At(l.i + 2, l.a) EXCEPT !.x = l.v])))
            ELSE IF IsWord(c, l.i, "BETWEEN")
            THEN LET lo == Parse(c, "rel", At(l.i + 1, l.a))
                     hi == Parse(c, "rel", IF lo.ok /\ IsWord(c, lo.i, "AND")
                                           THEN At(lo.i + 1, lo.a) ELSE Fail)
                 IN  Parse(c, "eqTail",
                           IF hi.ok THEN Got(Between3(l.v, lo.v, hi.v), hi.i, hi.a) ELSE Fail)
            ELSE l
      [] m = "rel" -> Parse(c, "relTail", Parse(c, "prim", l))
      [] m = "relTail" ->
            IF IsWordIn(c, l.i, {"<", "<=", ">", ">="})
            THEN LET r == Parse(c, "prim", At(l.i + 1, l.a))
                 IN  Parse(c, "relTail",
                           IF r.ok THEN Got(SqlOp(c.L[l.i].v[1], l.v, r.v), r.i, r.a) ELSE Fail)
            ELSE l
      [] m = "list" ->
            LET r == Parse(c, "or", l)
                rest == Parse(c, "list", IF r.ok /\ IsWord(c, r.i, ",")
                                         THEN [At(r.i + 1, r.a) EXCEPT !.x = l.x] ELSE Fail)
            IN  IF ~r.ok THEN Fail
                ELSE IF IsWord(c, r.i, ",")
                THEN (IF rest.ok THEN Got(SqlOr(SqlOp("=", l.x, r.v), rest.v), rest.i, rest.a)
                      ELSE Fail)
                ELSE IF IsWord(c, r.i, ")") THEN Got(SqlOp("=", l.x, r.v), r.i + 1, r.a)
                ELSE Fail
      [] m = "prim" ->
            IF l.i > Len(c.L) THEN Fail
            ELSE IF IsStr(c, l.i) THEN Got(SqlText(c.L[l.i].v), l.i + 1, l.a)
            ELSE IF IsWord(c, l.i, "?")
            THEN (IF l.a > Len(c.args) THEN Fail ELSE Got(c.args[l.a], l.i + 1, l.a + 1))
            ELSE IF IsWord(c, l.i, "-1") THEN Got(SqlInt(-1), l.i + 1, l.a)
            ELSE IF IsWordIn(c, l.i, Numerals) THEN Got(SqlInt(Atoi(c.L[l.i].v[1])), l.i + 1, l.a)
            ELSE IF IsWord(c, l.i, "data")
            THEN (IF IsWord(c, l.i + 1, "->>") /\ IsStr(c, l.i + 2)
                  THEN Got(JsonExtract(c.doc, c.L[l.i + 2].v), l.i + 3, l.a)
                  ELSE Fail)
            ELSE IF IsWord(c, l.i, "(")
            THEN LET r == Parse(c, "or", At(l.i + 1, l.a))
                 IN  IF r.ok /\ IsWord(c, r.i, ")") THEN Got(r.v, r.i + 1, r.a) ELSE Fail
            ELSE IF IsWord(c, l.i, "EXISTS")
            THEN LET arr == Parse(c, "or",
                                  IF /\ IsWord(c, l.i + 1, "(") /\ IsWord(c, l.i + 2, "SELECT")
                                     /\ IsWord(c, l.i + 3, "1") /\ IsWord(c, l.i + 4, "FROM")
                                     /\ IsWord(c, l.i + 5, "json_each") /\ IsWord(c, l.i + 6, "(")
                                  THEN At(l.i + 7, l.a) ELSE Fail)
                     x == Parse(c, "rel",
                                IF /\ arr.ok /\ IsWord(c, arr.i, ")")
                                   /\ IsWord(c, arr.i + 1, "WHERE")
                                   /\ IsWord(c, arr.i + 2, "json_each.value")
                                   /\ IsWord(c, arr.i + 3, "=")
                                THEN At(arr.i + 4, arr.a) ELSE Fail)
                 IN  IF x.ok /\ IsWord(c, x.i, ")")
                     THEN Got(ExistsIn(arr.v, x.v), x.i + 1, x.a)
                     ELSE Fail
            ELSE Fail

\* The expression that starts at token i of the tokens L, evaluated on doc
\* with the bound arguments args, the first placeholder taking args[a]
Expr(L, i, a, doc, args) == Parse([doc |-> doc, L |-> L, args |-> args], "or", At(i, a))

-----------------------------------------------------------------------------
(* The engine's statements, on the rows of one table as a connection sees  *)
(* them.  A result is [err, rows, count] with err "" for success.          *)

NoDoc == [id |-> 0, name |-> <<>>, list |-> <<>>, keys |-> {}, barname |-> <<>>]

Words(ws) == [i \in 1..Len(ws) |-> Word(ws[i])]
HasPrefix(L, ws) == Len(L) >= Len(ws) /\ SubSeq(L, 1, Len(ws)) = Words(ws)

IsNumber(L, i) == i <= Len(L) /\ L[i].k = "w" /\ L[i].v[1] \in (Numerals \cup {"-1"})
NumberAt(L, i) == IF L[i].v[1] = "-1" THEN -1 ELSE Atoi(L[i].v[1])

\* [LIMIT n [OFFSET m]] from token i to the end of the statement
LimitClause(L, i) ==
    IF i = Len(L) + 1 THEN [ok |-> TRUE, limit |-> -1, offset |-> 0]
    ELSE IF i + 1 = Len(L) /\ L[i] = Word("LIMIT") /\ IsNumber(L, i + 1)
    THEN [ok |-> TRUE, limit |-> NumberAt(L, i + 1), offset |-> 0]
    ELSE IF /\ i + 3 = Len(L) /\ L[i] = Word("LIMIT") /\ IsNumber(L, i + 1)
            /\ L[i + 2] = Word("OFFSET") /\ IsNumber(L, i + 3)
    THEN [ok |-> TRUE, limit |-> NumberAt(L, i + 1), offset |-> NumberAt(L, i + 3)]
    ELSE [ok |-> FALSE, limit |-> 0, offset |-> 0]

\* The rows the engine returns for LIMIT limit OFFSET offset: a negative
\* limit is no limit, a negative offset is no offset
Window(rows, limit, offset) ==
    LET from == (IF offset < 0 THEN 0 ELSE offset) + 1
        to == IF limit < 0 \/ from - 1 + limit > Len(rows) THEN Len(rows)
              ELSE from - 1 + limit
    IN  IF from > to THEN <<>> ELSE SubSeq(rows, from, to)

SyntaxError == [rows |-> <<>>, err |-> "syntax error", count |-> 0]
NoSuchTable == [rows |-> <<>>, err |-> "no such table", count |-> 0]

\* The expression at token i, read with no document (entry 0: whether it is
\* an expression, and where it ends) and evaluated on each of the rows
Evaluated(L, i, a, args, rows) ==
    [k \in 0..Len(rows) |-> Expr(L, i, a, IF k = 0 THEN NoDoc ELSE rows[k], args)]

\* whether the expression is true of row k
TrueOf(ev, k) == Truth(ev[k].v) = "T"

\* the rows the expression is true of, in order
RECURSIVE Kept(_, _, _)
Kept(rows, ev, k) ==
    IF k > Len(rows) THEN <<>>
    ELSE (IF TrueOf(ev, k) THEN <<rows[k]>> ELSE <<>>) \o Kept(rows, ev, k + 1)

\* the rows it is not true of, in order
RECURSIVE Dropped(_, _, _)
Dropped(rows, ev, k) ==
    IF k > Len(rows) THEN <<>>
    ELSE (IF TrueOf(ev, k) THEN <<>> ELSE <<rows[k]>>) \o Dropped(rows, ev, k + 1)

Paged(tables, rows, L, ev, lim) ==
    IF ~ev[0].ok \/ ~lim.ok THEN SyntaxError
    ELSE IF L[5].v[1] \notin tables THEN NoSuchTable
    ELSE [rows |-> Window(Kept(rows, ev, 1), lim.limit, lim.offset), err |-> "",
          count |-> 0]

Selected(tables, rows, L, ev) == Paged(tables, rows, L, ev, LimitClause(L, ev[0].i))

SelectStatement(tables, rows, L, args) ==
    IF /\ Len(L) = 11 /\ L[10].k = "w" /\ L[11] = Word("bq")
       /\ HasPrefix(L, <<"SELECT", "COUNT", "(", "*", ")", "AS", "count", "FROM", "bq">>)
    THEN (IF L[10].v[1] \in tables
          THEN [rows |-> <<>>, err |-> "", count |-> Len(rows)]
          ELSE NoSuchTable)
    ELSE IF /\ HasPrefix(L, <<"SELECT", "data", "FROM", "bq">>)
            /\ Len(L) >= 7 /\ L[5].k = "w"
            /\ L[6] = Word("bq") /\ L[7] = Word("WHERE")
    THEN Selected(tables, rows, L, Evaluated(L, 8, 1, args, rows))
    ELSE SyntaxError

QueryTokens(tables, rows, lx, args) ==
    IF ~lx.ok THEN SyntaxError ELSE SelectStatement(tables, rows, lx.out, args)

\* SELECT data FROM `name` WHERE expr [LIMIT n [OFFSET m]]
\* SELECT COUNT(*) AS count FROM `name`
EngineQuery(tables, rows, text, args) == QueryTokens(tables, rows, Lex(text, 1), args)

IsInsert(L) ==
    /\ HasPrefix(L, <<"INSERT", "INTO", "bq">>) /\ Len(L) = 12 /\ L[4].k = "w"
    /\ SubSeq(L, 5, 12) = Words(<<"bq", "(", "data", ")", "VALUES", "(", "?", ")">>)

IsUpdate(L) ==
    /\ HasPrefix(L, <<"UPDATE", "bq">>) /\ Len(L) >= 9 /\ L[3].k = "w"
    /\ SubSeq(L, 4, 9) = Words(<<"bq", "SET", "data", "=", "?", "WHERE">>)

IsDelete(L) ==
    /\ HasPrefix(L, <<"DELETE", "FROM", "bq">>) /\ Len(L) >= 6 /\ L[4].k = "w"
    /\ L[5] = Word("bq") /\ L[6] = Word("WHERE")

\* UPDATE (set) or DELETE with the WHERE expression evaluated as ev
Changed(tables, rows, L, args, set, ev) ==
    IF ~ev[0].ok \/ ev[0].i # Len(L) + 1 \/ (set /\ Len(args) < 1) THEN SyntaxError
    ELSE IF L[IF set THEN 3 ELSE 4].v[1] \notin tables THEN NoSuchTable
    ELSE [err |-> "", count |-> Len(Kept(rows, ev, 1)),
          rows |-> IF set
                   THEN [k \in 1..Len(rows) |-> IF TrueOf(ev, k) THEN args[1] ELSE rows[k]]
                   ELSE Dropped(rows, ev, 1)]

ChangeStatement(tables, rows, L, args) ==
    IF IsInsert(L)
    THEN (IF L[4].v[1] \notin tables THEN NoSuchTable
          ELSE IF Len(args) < 1 THEN SyntaxError
          ELSE [err |-> "", rows |-> Append(rows, args[1]), count |-> 1])
    ELSE IF IsUpdate(L) \/ IsDelete(L)
    THEN Changed(tables, rows, L, args, IsUpdate(L),
                 Evaluated(L, IF IsUpdate(L) THEN 10 ELSE 7, IF IsUpdate(L) THEN 2 ELSE 1,
                           args, rows))
    ELSE SyntaxError

ExecTokens(tables, rows, lx, args) ==
    IF ~lx.ok THEN SyntaxError ELSE ChangeStatement(tables, rows, lx.out, args)

\* INSERT INTO `name` (data) VALUES (?)
\* UPDATE `name` SET data = ? WHERE expr
\* DELETE FROM `name` WHERE expr
\* The result's rows are the table's rows after the statement, its count
\* the number of rows changed.
EngineExec(tables, rows, text, args) == ExecTokens(tables, rows, Lex(text, 1), args)

RECURSIVE IndexedColumns(_, _, _)
\* the indexed expressions so far (acc) with the expression e read at token
\* i, or <<>> if what follows is not the rest of the list and the closing ")"
IndexedColumn(L, i, acc, e) ==
    IF ~e.ok \/ e.i > Len(L) THEN <<>>
    ELSE IF L[e.i] = Word(",")
    THEN IndexedColumns(L, e.i + 1, Append(acc, SubSeq(L, i, e.i - 1)))
    ELSE IF L[e.i] = Word(")") /\ e.i = Len(L) THEN Append(acc, SubSeq(L, i, e.i - 1))
    ELSE <<>>

\* expr {, expr} ) from token i up to the end of the statement
IndexedColumns(L, i, acc) == IndexedColumn(L, i, acc, Expr(L, i, 1, NoDoc, <<>>))

HasIndex(indexes, name) == \E x \in indexes : x.name = name

Unchanged(tables, indexes, err) ==
    [err |-> err, tables |-> tables, indexes |-> indexes, count |-> 0]

\* CREATE INDEX without IF NOT EXISTS: an index of that name is an error
Indexed_Strict(tables, indexes, L, cols) ==
    IF cols = <<>> THEN Unchanged(tables, indexes, "syntax error")
    ELSE IF L[11].v[1] \notin tables THEN Unchanged(tables, indexes, "no such table")
    ELSE IF HasIndex(indexes, L[7].v[1])
    THEN Unchanged(tables, indexes, "index already exists")
    ELSE [err |-> "", tables |-> tables, count |-> 1,
          indexes |-> indexes \cup
              {[name |-> L[7].v[1], table |-> L[11].v[1], columns |-> cols]}]

Indexed(tables, indexes, L, cols) ==
    IF cols = <<>> THEN Unchanged(tables, indexes, "syntax error")
    ELSE IF L[11].v[1] \notin tables THEN Unchanged(tables, indexes, "no such table")
    ELSE IF HasIndex(indexes, L[7].v[1]) THEN Unchanged(tables, indexes, "")
    ELSE [err |-> "", tables |-> tables, count |-> 1,
          indexes |-> indexes \cup
              {[name |-> L[7].v[1], table |-> L[11].v[1], columns |-> cols]}]

CreateStatement(tables, indexes, L) ==
    IF /\ HasPrefix(L, <<"CREATE", "TABLE", "IF", "NOT", "EXISTS", "bq">>)
       /\ Len(L) = 12 /\ L[7].k = "w"
       /\ SubSeq(L, 8, 12) = Words(<<"bq", "(", "data", "jsonb", ")">>)
    THEN [err |-> "", tables |-> tables \cup {L[7].v[1]}, indexes |-> indexes,
          count |-> IF L[7].v[1] \in tables THEN 0 ELSE 1]
    ELSE IF /\ HasPrefix(L, <<"CREATE", "INDEX", "IF", "NOT", "EXISTS", "bq">>)
            /\ Len(L) >= 14 /\ L[7].k = "w" /\ L[11].k = "w"
            /\ SubSeq(L, 8, 10) = Words(<<"bq", "ON", "bq">>)
            /\ SubSeq(L, 12, 13) = Words(<<"bq", "(">>)
    THEN Indexed(tables, indexes, L, IndexedColumns(L, 14, <<>>))
    ELSE Unchanged(tables, indexes, "syntax error")

SchemaTokens(tables, indexes, lx) ==
    IF ~lx.ok THEN Unchanged(tables, indexes, "syntax error")
    ELSE CreateStatement(tables, indexes, lx.out)

\* CREATE TABLE IF NOT EXISTS `name` (data jsonb)
\* CREATE INDEX IF NOT EXISTS `index` ON `name` (expr {, expr})
\* The result is [err, tables, indexes, count]: the schema after the
\* statement, and count 1 if the statement changed it.
EngineSchema(tables, indexes, text) == SchemaTokens(tables, indexes, Lex(text, 1))

IsSchemaStatement(text) == Len(text) > 0 /\ text[1] = "CREATE"

-----------------------------------------------------------------------------
(* database/sql over the engine.  The database is                          *)
(*   rows    the committed rows of the table, in rowid order               *)
(*   tables  the tables that exist, indexes the indexes that exist         *)
(*           (name, table, indexed expressions)                            *)
(*   tx      per transaction: st (idle, open, committed, rolledback),      *)
(*           read (its snapshot is taken), wrote (it holds the write       *)
(*           lock), view (the rows it sees once read)                      *)
(* A call returns [err, rows, count, issued, db]: issued is the number of  *)
(* statements handed to the engine, db the database after the call.  A     *)
(* call made with a context that is already cancelled returns the          *)
(* context's error before a connection is taken; a call on a transaction   *)
(* that is over returns ErrTxDone.  The write lock is held by one          *)
(* transaction at a time; a writer that finds it held, or whose snapshot   *)
(* is no longer the committed state, gets the engine's busy error.         *)

Txs == {"t1", "t2"}

Canceled == "context canceled"
ErrTxDone == "sql: transaction has already been committed or rolled back"
Locked == "database is locked"

NoTx == [st |-> "idle", read |-> FALSE, wrote |-> FALSE, view |-> <<>>]

Refused(d, err) == [db |-> d, rows |-> <<>>, err |-> err, count |-> 0, issued |-> 0]
Ran(d, r) == [db |-> d, rows |-> r.rows, err |-> r.err, count |-> r.count, issued |-> 1]
Failed(d, err) == [db |-> d, rows |-> <<>>, err |-> err, count |-> 0, issued |-> 1]

WriteLocked(d, me) == \E u \in Txs \ {me} : d.tx[u].st = "open" /\ d.tx[u].wrote

\* sql.DB.QueryContext / QueryRowContext: a read on a pooled connection
DB_QueryContext(d, ctx, text, args) ==
    IF ctx = "cancelled" THEN Refused(d, Canceled)
    ELSE Ran(d, EngineQuery(d.tables, d.rows, text, args))

\* sql.DB.ExecContext: a statement on a pooled connection, committed at once
DB_ExecContext(d, ctx, text, args) ==
    LET Schema(r) ==
            IF r.err # "" THEN Failed(d, r.err)
            ELSE IF r.count > 0 /\ WriteLocked(d, "") THEN Failed(d, Locked)
            ELSE Ran([d EXCEPT !.tables = r.tables, !.indexes = r.indexes],
                     [rows |-> <<>>, err |-> "", count |-> r.count])
        Rows(r) ==
            IF r.err # "" THEN Failed(d, r.err)
            ELSE IF WriteLocked(d, "") THEN Failed(d, Locked)
            ELSE Ran([d EXCEPT !.rows = r.rows], [r EXCEPT !.rows = <<>>])
    IN  IF ctx = "cancelled" THEN Refused(d, Canceled)
        ELSE IF IsSchemaStatement(text) THEN Schema(EngineSchema(d.tables, d.indexes, text))
        ELSE Rows(EngineExec(d.tables, d.rows, text, args))

TxView(d, t) == IF d.tx[t].read THEN d.tx[t].view ELSE d.rows

\* sql.Tx.QueryContext / QueryRowContext: the first read takes the snapshot
Tx_QueryContext(d, t, ctx, text, args) ==
    LET Rows(r) ==
            IF r.err # "" THEN Failed(d, r.err)
            ELSE Ran([d EXCEPT !.tx[t].read = TRUE, !.tx[t].view = TxView(d, t)], r)
    IN  IF ctx = "cancelled" THEN Refused(d, Canceled)
        ELSE IF d.tx[t].st # "open" THEN Refused(d, ErrTxDone)
        ELSE Rows(EngineQuery(d.tables, TxView(d, t), text, args))

\* sql.Tx.ExecContext: a write takes the write lock
Tx_ExecContext(d, t, ctx, text, args) ==
    LET Rows(r) ==
            IF r.err # "" THEN Failed(d, r.err)
            ELSE IF WriteLocked(d, t) THEN Failed(d, Locked)
            ELSE IF d.tx[t].read /\ ~d.tx[t].wrote /\ d.tx[t].view # d.rows
            THEN Failed(d, Locked)
            ELSE Ran([d EXCEPT !.tx[t] = [st |-> "open", read |-> TRUE,
                                          wrote |-> TRUE, view |-> r.rows]],
                     [r EXCEPT !.rows = <<>>])
    IN  IF ctx = "cancelled" THEN Refused(d, Canceled)
        ELSE IF d.tx[t].st # "open" THEN Refused(d, ErrTxDone)
        ELSE Rows(EngineExec(d.tables, TxView(d, t), text, args))

\* sql.DB.BeginTx with default options: a deferred transaction
DB_BeginTx(d, t, ctx) ==
    IF ctx = "cancelled" THEN Refused(d, Canceled)
    ELSE [db |-> [d EXCEPT !.tx[t] = [NoTx EXCEPT !.st = "open"]],
          rows |-> <<>>, err |-> "", count |-> 0, issued |-> 1]

\* sql.Tx.Commit
Tx_Commit(d, t) ==
    IF d.tx[t].st # "open" THEN Refused(d, ErrTxDone)
    ELSE [db |-> [d EXCEPT !.rows = IF d.tx[t].wrote THEN d.tx[t].view ELSE @,
                           !.tx[t] = [NoTx EXCEPT !.st = "committed"]],
          rows |-> <<>>, err |-> "", count |-> 0, issued |-> 1]

\* a Rollback that commits
Tx_Rollback_Commits(d, t) == Tx_Commit(d, t)

\* sql.Tx.Rollback
Tx_Rollback(d, t) ==
    IF d.tx[t].st # "open" THEN Refused(d, ErrTxDone)
    ELSE [db |-> [d EXCEPT !.tx[t] = [NoTx EXCEPT !.st = "rolledback"]],
          rows |-> <<>>, err |-> "", count |-> 0, issued |-> 1]

-----------------------------------------------------------------------------
(* table.go.  A call returns [err, rows, nil, count, name, issued, db]:    *)
(* rows the records returned, nil whether the returned slice or pointer is *)
(* nil, count the number returned, name the index name returned.           *)

\* reflect.Name of the record type, as package, dot, type
TypeName == <<"nosqlite", ".", "Foo">>

ReplaceAll(chunks, old, new) ==
    [i \in 1..Len(chunks) |-> IF chunks[i] = old THEN new ELSE chunks[i]]

\* the lower-case form of a chunk; the chunks not listed have no upper-case letter
Lower(chunk) ==
    CASE chunk = "Foo" -> "foo"
      [] chunk = "Bar" -> "bar"
      [] chunk = "IDOne" -> "idone"
      [] chunk = "IdOne" -> "idone"
      [] chunk = "IDTwo" -> "idtwo"
      [] OTHER -> chunk

ToLower(chunks) == [i \in 1..Len(chunks) |-> Lower(chunks[i])]

RECURSIVE Flat(_)
Flat(chunks) == IF chunks = <<>> THEN "" ELSE Head(chunks) \o Flat(Tail(chunks))

\* a type as reflect prints it: the qualified name, after "*" for a pointer
Pointer(T) == <<"*">> \o T

\* reflect.Name[T](): the name of T, or of the type T points to, and whether
\* T is a pointer
reflect_Name(T) ==
    IF T # <<>> /\ Head(T) = "*" THEN [name |-> Tail(T), isPointer |-> TRUE]
    ELSE [name |-> T, isPointer |-> FALSE]

\* a table name that tells the pointer type from the value type
tableName_WithPointer(T) ==
    Flat(ToLower(ReplaceAll(reflect_Name(T).name, ".", "_")))
        \o (IF reflect_Name(T).isPointer THEN "_ptr" ELSE "")

tableName(T) == Flat(ToLower(ReplaceAll(reflect_Name(T).name, ".", "_")))

Done(r, rows, isNil) ==
    [db |-> r.db, name |-> "", rows |-> rows, err |-> r.err, count |-> r.count,
     issued |-> r.issued, nil |-> isNil]

UnmarshalAll(docs) == [i \in 1..Len(docs) |-> Unmarshal(docs[i])]

Quoted(name) == <<"bq", name, "bq">>

insertStatement(name) ==
    <<"INSERT", "INTO">> \o Quoted(name) \o <<"(", "data", ")", "VALUES", "(", "?", ")">>
updateStatement(name, clause) ==
    <<"UPDATE">> \o Quoted(name) \o <<"SET", "data", "=", "?", "WHERE">> \o Clause(clause)
deleteStatement(name, clause) ==
    <<"DELETE", "FROM">> \o Quoted(name) \o <<"WHERE">> \o Clause(clause)
queryStatement(name, clause) ==
    <<"SELECT", "data", "FROM">> \o Quoted(name) \o <<"WHERE">> \o Clause(clause)
countStatement(name) ==
    <<"SELECT", "COUNT", "(", "*", ")", "AS", "count", "FROM">> \o Quoted(name)

\* strings.Cut(field, "."), the part after the first dot
CutAfter(field) ==
    IF \E i \in 1..Len(field) : field[i] = "."
    THEN SubSeq(field, 1 + CHOOSE i \in 1..Len(field) :
                              field[i] = "." /\ \A k \in 1..(i - 1) : field[k] # ".",
                Len(field))
    ELSE <<>>

escapeFieldName(field) == ReplaceAll(ReplaceAll(CutAfter(field), ".", "__"), " ", "_")

\* the escaped names joined last field first
joinEscapedFieldNames_Reversed(fields) ==
    Join([i \in 1..Len(fields) |-> escapeFieldName(fields[Len(fields) + 1 - i])], <<"_">>)

joinEscapedFieldNames(fields) ==
    Join([i \in 1..Len(fields) |-> escapeFieldName(fields[i])], <<"_">>)

constructIndexName(name, fields) ==
    Flat(<<"idx_", name, "_">> \o joinEscapedFieldNames(fields))

indexName(n, fields) == constructIndexName(n.Name, fields)

createStatement(name) ==
    <<"CREATE", "TABLE", "IF", "NOT", "EXISTS">> \o Quoted(name) \o <<"(", "data", "jsonb", ")">>

createIndexStatement(n, fields) ==
    <<"CREATE", "INDEX", "IF", "NOT", "EXISTS">> \o Quoted(indexName(n, fields))
        \o <<"ON">> \o Quoted(n.Name) \o <<"(">>
        \o Join([i \in 1..Len(fields) |-> <<"data", "->>", "'">> \o fields[i] \o <<"'">>],
                <<",">>)
        \o <<")">>

\* the value of an []any argument list at the driver
Params(clause) == BindAll(Values(clause))

createTableWithName(d, n, ctx, name) ==
    Done(DB_ExecContext(d, ctx, createStatement(name), <<>>), <<>>, TRUE)

Table_CreateTable(d, n, ctx) == createTableWithName(d, n, ctx, n.Name)

\* the index name is returned with or without an error
Table_CreateIndex(d, n, ctx, fields) ==
    [Done(DB_ExecContext(d, ctx, createIndexStatement(n, fields), <<>>), <<>>, TRUE)
        EXCEPT !.name = indexName(n, fields)]

\* fmt.Sprintf("%v", fields) of a []string: the elements between brackets
Sprintf_fields(fields) == "[" \o Flat(Join(fields, <<" ">>)) \o "]"

\* fmt.Errorf("failed to create index for fields %v: %w", fields, err)
Errorf_fields(fields, err) ==
    "failed to create index for fields " \o Sprintf_fields(fields) \o ": " \o err

RECURSIVE Table_CreateIndexes_Loop(_, _, _, _, _, _)
\* a loop that goes on to the next field-set after a failure and reports
\* the last error
CreateIndexes_GoOn(d, n, ctx, indexes, i, acc, r) ==
    Table_CreateIndexes_Loop(r.db, n, ctx, indexes, i + 1,
        [err |-> IF r.err # "" THEN Errorf_fields(indexes[i], r.err) ELSE acc.err,
         issued |-> acc.issued + r.issued,
         names |-> [acc.names EXCEPT ![i] = r.name]])

\* one turn of the loop: indexNames[i], err = n.CreateIndex(ctx, fields...),
\* and the return when err is not nil
CreateIndexes_Turn(d, n, ctx, indexes, i, acc, r) ==
    IF r.err # ""
    THEN [db |-> r.db, err |-> Errorf_fields(indexes[i], r.err),
          issued |-> acc.issued + r.issued, names |-> [acc.names EXCEPT ![i] = r.name]]
    ELSE Table_CreateIndexes_Loop(r.db, n, ctx, indexes, i + 1,
             [err |-> "", issued |-> acc.issued + r.issued,
              names |-> [acc.names EXCEPT ![i] = r.name]])

\* for i, fields := range indexes, from the i-th field-set on
Table_CreateIndexes_Loop(d, n, ctx, indexes, i, acc) ==
    IF i > Len(indexes)
    THEN [db |-> d, err |-> acc.err, issued |-> acc.issued, names |-> acc.names]
    ELSE CreateIndexes_Turn(d, n, ctx, indexes, i, acc,
                            Table_CreateIndex(d, n, ctx, indexes[i]))

\* indexNames := make([]string, len(indexes)), then the loop
Table_CreateIndexes(d, n, ctx, indexes) ==
    Table_CreateIndexes_Loop(d, n, ctx, indexes, 1,
        [err |-> "", issued |-> 0, names |-> [i \in 1..Len(indexes) |-> ""]])

\* an Insert that does not look at its context
Table_Insert_Unchecked(d, n, ctx, data) ==
    Done(DB_ExecContext(d, "ok", insertStatement(n.Name), <<Marshal(data)>>), <<>>, TRUE)

\* an Insert that keeps one row per document
Table_Insert_Merging(d, n, ctx, data) ==
    IF ctx = "cancelled" THEN Done(Refused(d, Canceled), <<>>, TRUE)
    ELSE IF \E i \in 1..Len(d.rows) : d.rows[i] = Marshal(data)
    THEN Done(Ran(d, [rows |-> <<>>, err |-> "", count |-> 0]), <<>>, TRUE)
    ELSE Done(DB_ExecContext(d, ctx, insertStatement(n.Name), <<Marshal(data)>>), <<>>, TRUE)

Table_Insert(d, n, ctx, data) ==
    IF ctx = "cancelled" THEN Done(Refused(d, Canceled), <<>>, TRUE)
    ELSE Done(DB_ExecContext(d, ctx, insertStatement(n.Name), <<Marshal(data)>>), <<>>, TRUE)

\* an Update that writes the predicate that matches every row
Table_Update_EveryRow(d, n, ctx, clause, newVal) ==
    IF ctx = "cancelled" THEN Done(Refused(d, Canceled), <<>>, TRUE)
    ELSE Done(DB_ExecContext(d, ctx, updateStatement(n.Name, All), <<Marshal(newVal)>>),
              <<>>, TRUE)

Table_Update(d, n, ctx, clause, newVal) ==
    IF ctx = "cancelled" THEN Done(Refused(d, Canceled), <<>>, TRUE)
    ELSE Done(DB_ExecContext(d, ctx, updateStatement(n.Name, clause),
                             <<Marshal(newVal)>> \o Params(clause)), <<>>, TRUE)

\* a Delete that writes the predicate that matches every row
Table_Delete_EveryRow(d, n, ctx, clause) ==
    IF ctx = "cancelled" THEN Done(Refused(d, Canceled), <<>>, TRUE)
    ELSE Done(DB_ExecContext(d, ctx, deleteStatement(n.Name, All), <<>>), <<>>, TRUE)

Table_Delete(d, n, ctx, clause) ==
    IF ctx = "cancelled" THEN Done(Refused(d, Canceled), <<>>, TRUE)
    ELSE Done(DB_ExecContext(d, ctx, deleteStatement(n.Name, clause), Params(clause)),
              <<>>, TRUE)

\* a Scan that reports sql.ErrNoRows as any other error
ScanOne_ErrNoRows(r) ==
    IF r.err # "" THEN Done(r, <<>>, TRUE)
    ELSE IF r.rows = <<>>
         THEN Done([r EXCEPT !.err = "failed to scan row: sql: no rows in result set"],
                   <<>>, TRUE)
         ELSE Done(r, <<Unmarshal(r.rows[1])>>, FALSE)

\* row.Scan: no row is (nil, nil), an error is (nil, err)

ScanOne(r) ==
    IF r.err # "" \/ r.rows = <<>> THEN Done(r, <<>>, TRUE)
    ELSE Done(r, <<Unmarshal(r.rows[1])>>, FALSE)

\* rows.Next / rows.Scan into results, which starts as make([]T, 0)
ScanAll(r) ==
    IF r.err # "" THEN Done(r, <<>>, TRUE)
    ELSE Done(r, UnmarshalAll(r.rows), FALSE)

\* count.Scan(&c)
ScanCount(r) ==
    IF r.err # "" THEN Done([r EXCEPT !.count = 0], <<>>, TRUE)
    ELSE Done(r, <<>>, TRUE)

Table_QueryOne(d, n, ctx, clause) ==
    ScanOne(DB_QueryContext(d, ctx, queryStatement(n.Name, clause) \o <<"LIMIT", "1">>,
                            Params(clause)))

\* a pagination that writes no LIMIT when limit is 0
Table_QueryManyWithPagination_NoLimit(d, n, ctx, clause, limit, offset) ==
    LET Limited(q) == IF limit > 0 THEN q \o <<"LIMIT", ToString(limit)>> ELSE q
        Skipping(q) == IF offset > 0 THEN q \o <<"OFFSET", ToString(offset)>> ELSE q
    IN  ScanAll(DB_QueryContext(d, ctx, Skipping(Limited(queryStatement(n.Name, clause))),
                                Params(clause)))

Table_QueryManyWithPagination(d, n, ctx, clause, limit, offset) ==
    LET Limited(q) == IF limit > 0 THEN q \o <<"LIMIT", ToString(limit)>>
                      ELSE q \o <<"LIMIT", "-1">>
        Skipping(q) == IF offset > 0 THEN q \o <<"OFFSET", ToString(offset)>> ELSE q
    IN  ScanAll(DB_QueryContext(d, ctx, Skipping(Limited(queryStatement(n.Name, clause))),
                                Params(clause)))

Table_QueryMany(d, n, ctx, clause) == Table_QueryManyWithPagination(d, n, ctx, clause, 0, 0)

Table_All(d, n, ctx) == Table_QueryMany(d, n, ctx, All)

Table_Count(d, n, ctx) == ScanCount(DB_QueryContext(d, ctx, countStatement(n.Name), <<>>))

WithTransaction(n, tx) == [name |-> n.Name, tx |-> tx]

\* an Insert of the view made on the store's connection pool
TableWithTx_Insert_OnStore(d, t, ctx, data) == Table_Insert(d, [Name |-> t.name], ctx, data)

TableWithTx_Insert(d, t, ctx, data) ==
    IF ctx = "cancelled" THEN Done(Refused(d, Canceled), <<>>, TRUE)
    ELSE Done(Tx_ExecContext(d, t.tx, ctx, insertStatement(t.name), <<Marshal(data)>>),
              <<>>, TRUE)

\* an Update of the view made on the store's connection pool
TableWithTx_Update_OnStore(d, t, ctx, clause, newVal) ==
    Table_Update(d, [Name |-> t.name], ctx, clause, newVal)

TableWithTx_Update(d, t, ctx, clause, newVal) ==
    IF ctx = "cancelled" THEN Done(Refused(d, Canceled), <<>>, TRUE)
    ELSE Done(Tx_ExecContext(d, t.tx, ctx, updateStatement(t.name, clause),
                             <<Marshal(newVal)>> \o Params(clause)), <<>>, TRUE)

TableWithTx_Delete(d, t, ctx, clause) ==
    IF ctx = "cancelled" THEN Done(Refused(d, Canceled), <<>>, TRUE)
    ELSE Done(Tx_ExecContext(d, t.tx, ctx, deleteStatement(t.name, clause), Params(clause)),
              <<>>, TRUE)

\* a QueryOne of the view made on the store's connection pool
TableWithTx_QueryOne_OnStore(d, t, ctx, clause) ==
    Table_QueryOne(d, [Name |-> t.name], ctx, clause)

TableWithTx_QueryOne(d, t, ctx, clause) ==
    ScanOne(Tx_QueryContext(d, t.tx, ctx, queryStatement(t.name, clause) \o <<"LIMIT", "1">>,
                            Params(clause)))

TableWithTx_QueryManyWithPagination(d, t, ctx, clause, limit, offset) ==
    LET Limited(q) == IF limit > 0 THEN q \o <<"LIMIT", ToString(limit)>> ELSE q
        Skipping(q) == IF offset > 0 THEN q \o <<"OFFSET", ToString(offset)>> ELSE q
    IN  ScanAll(Tx_QueryContext(d, t.tx, ctx, Skipping(Limited(queryStatement(t.name, clause))),
                                Params(clause)))

TableWithTx_QueryMany(d, t, ctx, clause) ==
    TableWithTx_QueryManyWithPagination(d, t, ctx, clause, 0, 0)

TableWithTx_All(d, t, ctx) == TableWithTx_QueryMany(d, t, ctx, All)

TableWithTx_Count(d, t, ctx) ==
    ScanCount(Tx_QueryContext(d, t.tx, ctx, countStatement(t.name), <<>>))

-----------------------------------------------------------------------------
(* The documented contract, on records rather than on stored text: what a  *)
(* predicate means, what a write does to a view, what a read returns.      *)

idPath == <<"$", ".", "id">>
namePath == <<"$", ".", "name">>
barNamePath == <<"$", ".", "bar", ".", "name">>
listPath == <<"$", ".", "list">>

Absent == [s |-> <<>>, t |-> "none", n |-> 0]
IsNumber_v(v) == v.t \in {"int", "int64", "bool"}

FieldOf(foo, path) ==
    IF path = idPath THEN IntV(foo.Id)
    ELSE IF path = namePath THEN StrV(foo.Name)
    ELSE IF path = barNamePath THEN StrV(foo.Bar.Name)
    ELSE Absent

Order(x, v) ==
    IF x.t = "string" THEN (IF x.s = v.s THEN 0 ELSE IF TextRank(x.s) <= TextRank(v.s) THEN -1 ELSE 1)
    ELSE (IF x.n < v.n THEN -1 ELSE IF x.n = v.n THEN 0 ELSE 1)

Comparable(x, v) ==
    \/ x.t = "string" /\ v.t = "string"
    \/ IsNumber_v(x) /\ IsNumber_v(v)

Compares(op, x, v) ==
    /\ Comparable(x, v)
    /\ CASE op = "=" -> Order(x, v) = 0
         [] op = "!=" -> Order(x, v) # 0
         [] op = "<" -> Order(x, v) < 0
         [] op = "<=" -> Order(x, v) <= 0
         [] op = ">" -> Order(x, v) > 0
         [] op = ">=" -> Order(x, v) >= 0
         [] op = "LIKE" -> x.t = "string" /\ LikeMatch(x.s, v.s)

RECURSIVE Holds(_, _)
Holds(c, foo) ==
    CASE c.kind = "combinator" ->
            IF Len(c.clauses) = 0 THEN TRUE
            ELSE IF c.combinator = andCombinator
            THEN \A i \in 1..Len(c.clauses) : Holds(c.clauses[i], foo)
            ELSE \E i \in 1..Len(c.clauses) : Holds(c.clauses[i], foo)
      [] c.kind = "condition" -> Compares(c.Operator, FieldOf(foo, c.Field), c.Value)
      [] c.kind = "in" ->
            \E i \in 1..Len(c.values) : Compares("=", FieldOf(foo, c.Field), c.values[i])
      [] c.kind = "between" ->
            /\ Compares(">=", FieldOf(foo, c.Field), c.From)
            /\ Compares("<=", FieldOf(foo, c.Field), c.To)
      [] c.kind = "contains" ->
            /\ c.Field = listPath
            /\ IF c.combinator = andCombinator
               THEN \A i \in 1..Len(c.values) : \E k \in 1..Len(foo.List) :
                        StrV(foo.List[k]) = c.values[i]
               ELSE \E i \in 1..Len(c.values) : \E k \in 1..Len(foo.List) :
                        StrV(foo.List[k]) = c.values[i]

Matching(S, c) == SelectSeq(S, LAMBDA foo : Holds(c, foo))

\* skip the first offset rows, then keep at most limit rows when limit > 0
Page(M, limit, offset) ==
    LET rest == IF offset >= Len(M) THEN <<>> ELSE SubSeq(M, offset + 1, Len(M))
    IN  IF limit > 0 /\ limit < Len(rest) THEN SubSeq(rest, 1, limit) ELSE rest

Inserted(S, foo) == Append(S, foo)
Updated(S, c, foo) == [i \in 1..Len(S) |-> IF Holds(c, S[i]) THEN foo ELSE S[i]]
Deleted(S, c) == SelectSeq(S, LAMBDA foo : ~Holds(c, foo))

-----------------------------------------------------------------------------
(* The inputs the calls are made with *)

InjectedValue == <<"injection", "'", "OR", "1", "=", "1", "--">>

Foos ==
    <<NewFoo(1, <<"a">>, <<"x">>, <<>>),
      NewFoo(2, <<"b">>, <<"x">>, <<>>),
      NewFoo(3, <<"a">>, <<"y">>, <<<<"a">>, <<"b">>>>),
      NewFoo(4, InjectedValue, <<"x">>, <<<<"b">>>>)>>

InjectedField == <<"$", ".", "name", "'", "OR", "1", "=", "1", "--">>
ClosedInjectedField == <<"$", ".", "name", "'", "OR", "1", "=", "1", ")", "--">>

Preds ==
    <<All,
      Equal(namePath, StrV(<<"a">>)),
      Equal(barNamePath, StrV(<<"x">>)),
      Equal(idPath, IntV(2)),
      Or(<<Equal(namePath, StrV(<<"b">>)), Equal(idPath, IntV(1))>>),
      Equal(namePath, StrV(InjectedValue)),
      Equal(InjectedField, StrV(<<"a">>)),
      Equal(ClosedInjectedField, StrV(<<"a">>))>>

IndexFields == << <<namePath>>, <<idPath, barNamePath>> >>

Ctxs == {"ok", "cancelled"}

ReadOps == {"QueryOne", "QueryMany", "QueryManyWithPagination", "All", "Count"}
WriteOps == {"Insert", "Update", "Delete"}

-----------------------------------------------------------------------------
(* The record of a call: who made it ("db" for the plain Table, else the   *)
(* transaction), its inputs (p the predicate, f the index in Foos of the   *)
(* record, 0 for none), and what it returned.                              *)

Call(op, who, ctx, p, f, limit, offset, r) ==
    [op |-> op, name |-> r.name, p |-> p, limit |-> limit, offset |-> offset,
     rows |-> r.rows, err |-> r.err, count |-> r.count, issued |-> r.issued,
     ctx |-> ctx, nil |-> r.nil, who |-> who, f |-> f]

\* what the contract says a read returns over the records S
Expected(c, S) ==
    CASE c.op = "QueryOne" ->
            IF Matching(S, c.p) = <<>> THEN <<>> ELSE <<Matching(S, c.p)[1]>>
      [] c.op = "QueryMany" -> Matching(S, c.p)
      [] c.op = "QueryManyWithPagination" -> Page(Matching(S, c.p), c.limit, c.offset)
      [] c.op = "All" -> S
      [] c.op = "Count" -> <<>>

Agrees(c, S) ==
    /\ c.err = ""
    /\ c.rows = Expected(c, S)
    /\ c.op = "Count" => c.count = Len(S)

\* what the contract says a write leaves of the records S
Written(c, S) ==
    CASE c.op = "Insert" -> Inserted(S, Foos[c.f])
      [] c.op = "Update" -> Updated(S, c.p, Foos[c.f])
      [] c.op = "Delete" -> Deleted(S, c.p)

(* The history variable abs: main, the records the contract says the table *)
(* holds; per transaction its view (once seen), whether it has written     *)
(* (dirty), base, the one-element list of the records the table held when  *)
(* it began, emptied when another writer changes the table, and over, the  *)
(* call that ended it.                                                     *)

NoAbs ==
    [view |-> [t \in Txs |-> <<>>],
     main |-> <<>>,
     seen |-> [t \in Txs |-> FALSE],
     dirty |-> [t \in Txs |-> FALSE],
     base |-> [t \in Txs |-> <<>>],
     over |-> [t \in Txs |-> ""]]

AbsView(a, t) == IF a.seen[t] THEN a.view[t] ELSE a.main

Rebased(a, main) ==
    [a EXCEPT !.main = main,
              !.base = [u \in Txs |-> IF main # a.main THEN <<>> ELSE a.base[u]]]

AbsStep(a, c) ==
    IF c.err # "" THEN a
    ELSE CASE c.op = "Begin" ->
                [a EXCEPT !.view[c.who] = <<>>, !.seen[c.who] = FALSE,
                          !.dirty[c.who] = FALSE, !.base[c.who] = <<a.main>>]
           [] c.op = "Commit" ->
                [a EXCEPT !.main = IF a.dirty[c.who] THEN a.view[c.who] ELSE @,
                          !.base = [u \in Txs |->
                                      IF u = c.who \/ (a.dirty[c.who] /\ a.view[c.who] # a.main)
                                      THEN <<>> ELSE a.base[u]],
                          !.view[c.who] = <<>>, !.seen[c.who] = FALSE,
                          !.dirty[c.who] = FALSE, !.over[c.who] = "Commit"]
           [] c.op = "Rollback" ->
                [a EXCEPT !.view[c.who] = <<>>, !.seen[c.who] = FALSE,
                          !.over[c.who] = "Rollback"]
           [] c.op \in ReadOps /\ c.who \in Txs ->
                [a EXCEPT !.view[c.who] = AbsView(a, c.who), !.seen[c.who] = TRUE]
           [] c.op \in WriteOps /\ c.who \in Txs ->
                [a EXCEPT !.view[c.who] = Written(c, AbsView(a, c.who)),
                          !.seen[c.who] = TRUE, !.dirty[c.who] = TRUE]
           [] c.op \in WriteOps /\ c.who = "db" -> Rebased(a, Written(c, a.main))
           [] OTHER -> a

-----------------------------------------------------------------------------
(* The store: one Table[Foo] made by NewTable, which creates its table,    *)
(* and the transactions begun on the store.  One action per handler; a     *)
(* TableWithTx exists once its transaction has begun.                      *)

NewTable == [Name |-> tableName(TypeName)]
View(t) == WithTransaction(NewTable, t)

InitStore ==
    /\ db = [rows |-> <<>>, tables |-> {NewTable.Name}, indexes |-> {},
             tx |-> [t \in Txs |-> NoTx]]
    /\ abs = NoAbs

Step(op, who, ctx, p, f, limit, offset, r) ==
    /\ db' = r.db
    /\ abs' = AbsStep(abs, Call(op, who, ctx, p, f, limit, offset, r))

Began(t) == db.tx[t].st # "idle"

Begin(t, ctx) ==
    /\ ~Began(t)
    /\ Step("Begin", t, ctx, All, 0, 0, 0, Done(DB_BeginTx(db, t, ctx), <<>>, TRUE))
    /\ UNCHANGED <<cl, made>>

Commit(t) ==
    /\ Began(t)
    /\ Step("Commit", t, "ok", All, 0, 0, 0, Done(Tx_Commit(db, t), <<>>, TRUE))
    /\ UNCHANGED <<cl, made>>

Rollback(t) ==
    /\ Began(t)
    /\ Step("Rollback", t, "ok", All, 0, 0, 0, Done(Tx_Rollback(db, t), <<>>, TRUE))
    /\ UNCHANGED <<cl, made>>

TableCreateTable(ctx) ==
    /\ Step("CreateTable", "db", ctx, All, 0, 0, 0, Table_CreateTable(db, NewTable, ctx))
    /\ UNCHANGED <<cl, made>>

TableCreateIndex(ctx, fields) ==
    /\ Step("CreateIndex", "db", ctx, All, 0, 0, 0, Table_CreateIndex(db, NewTable, ctx, fields))
    /\ UNCHANGED <<cl, made>>

\* the field-sets a caller passes to CreateIndexes: none, two, the two in
\* the other order, and lists with a field path that the engine rejects
BrokenIndexFields == <<InjectedField>>
IndexSets ==
    << <<>>,
       <<IndexFields[1], IndexFields[2]>>,
       <<IndexFields[2], IndexFields[1]>>,
       <<IndexFields[1], BrokenIndexFields, IndexFields[2]>>,
       <<BrokenIndexFields, IndexFields[1]>> >>

TableCreateIndexes(ctx, indexes) ==
    /\ db' = Table_CreateIndexes(db, NewTable, ctx, indexes).db
    /\ UNCHANGED <<abs, cl, made>>

TableInsert(ctx, f) ==
    /\ Step("Insert", "db", ctx, All, f, 0, 0, Table_Insert(db, NewTable, ctx, Foos[f]))
    /\ UNCHANGED <<cl, made>>

TableUpdate(ctx, p, f) ==
    /\ Step("Update", "db", ctx, p, f, 0, 0, Table_Update(db, NewTable, ctx, p, Foos[f]))
    /\ UNCHANGED <<cl, made>>

TableDelete(ctx, p) ==
    /\ Step("Delete", "db", ctx, p, 0, 0, 0, Table_Delete(db, NewTable, ctx, p))
    /\ UNCHANGED <<cl, made>>

TableQueryOne(ctx, p) ==
    /\ Step("QueryOne", "db", ctx, p, 0, 0, 0, Table_QueryOne(db, NewTable, ctx, p))
    /\ UNCHANGED <<cl, made>>

TableQueryMany(ctx, p) ==
    /\ Step("QueryMany", "db", ctx, p, 0, 0, 0, Table_QueryMany(db, NewTable, ctx, p))
    /\ UNCHANGED <<cl, made>>

TableQueryManyWithPagination(ctx, p, limit, offset) ==
    /\ Step("QueryManyWithPagination", "db", ctx, p, 0, limit, offset,
            Table_QueryManyWithPagination(db, NewTable, ctx, p, limit, offset))
    /\ UNCHANGED <<cl, made>>

TableAll(ctx) ==
    /\ Step("All", "db", ctx, All, 0, 0, 0, Table_All(db, NewTable, ctx))
    /\ UNCHANGED <<cl, made>>

TableCount(ctx) ==
    /\ Step("Count", "db", ctx, All, 0, 0, 0, Table_Count(db, NewTable, ctx))
    /\ UNCHANGED <<cl, made>>

ViewInsert(t, ctx, f) ==
    /\ Began(t)
    /\ Step("Insert", t, ctx, All, f, 0, 0, TableWithTx_Insert(db, View(t), ctx, Foos[f]))
    /\ UNCHANGED <<cl, made>>

ViewUpdate(t, ctx, p, f) ==
    /\ Began(t)
    /\ Step("Update", t, ctx, p, f, 0, 0, TableWithTx_Update(db, View(t), ctx, p, Foos[f]))
    /\ UNCHANGED <<cl, made>>

ViewDelete(t, ctx, p) ==
    /\ Began(t)
    /\ Step("Delete", t, ctx, p, 0, 0, 0, TableWithTx_Delete(db, View(t), ctx, p))
    /\ UNCHANGED <<cl, made>>

ViewQueryOne(t, ctx, p) ==
    /\ Began(t)
    /\ Step("QueryOne", t, ctx, p, 0, 0, 0, TableWithTx_QueryOne(db, View(t), ctx, p))
    /\ UNCHANGED <<cl, made>>

ViewQueryMany(t, ctx, p) ==
    /\ Began(t)
    /\ Step("QueryMany", t, ctx, p, 0, 0, 0, TableWithTx_QueryMany(db, View(t), ctx, p))
    /\ UNCHANGED <<cl, made>>

ViewQueryManyWithPagination(t, ctx, p, limit, offset) ==
    /\ Began(t)
    /\ Step("QueryManyWithPagination", t, ctx, p, 0, limit, offset,
            TableWithTx_QueryManyWithPagination(db, View(t), ctx, p, limit, offset))
    /\ UNCHANGED <<cl, made>>

ViewAll(t, ctx) ==
    /\ Began(t)
    /\ Step("All", t, ctx, All, 0, 0, 0, TableWithTx_All(db, View(t), ctx))
    /\ UNCHANGED <<cl, made>>

ViewCount(t, ctx) ==
    /\ Began(t)
    /\ Step("Count", t, ctx, All, 0, 0, 0, TableWithTx_Count(db, View(t), ctx))
    /\ UNCHANGED <<cl, made>>

-----------------------------------------------------------------------------
(* Spec: the store with its transactions, every call with a live context   *)

MaxLimit == 1
MaxOffset == 1
StorePreds == {1, 2}
StoreFoos == {1, 2}

NoClause == [vals |-> <<>>, depth |-> 0]

Init ==
    /\ InitStore
    /\ cl = All
    /\ made = NoClause

Next ==
    \/ \E t \in Txs : Begin(t, "ok")
    \/ \E t \in Txs : Commit(t)
    \/ \E t \in Txs : Rollback(t)
    \/ \E f \in StoreFoos : Len(db.rows) < MaxRows /\ TableInsert("ok", f)
    \/ \E p \in StorePreds, f \in StoreFoos : TableUpdate("ok", Preds[p], f)
    \/ \E p \in StorePreds : TableDelete("ok", Preds[p])
    \/ \E p \in StorePreds : TableQueryOne("ok", Preds[p])
    \/ \E p \in StorePreds : TableQueryMany("ok", Preds[p])
    \/ \E p \in StorePreds, limit \in 0..MaxLimit, offset \in 0..MaxOffset :
          TableQueryManyWithPagination("ok", Preds[p], limit, offset)
    \/ TableAll("ok")
    \/ TableCount("ok")
    \/ \E t \in Txs, f \in StoreFoos : Len(TxView(db, t)) < MaxRows /\ ViewInsert(t, "ok", f)
    \/ \E t \in Txs, p \in StorePreds, f \in StoreFoos : ViewUpdate(t, "ok", Preds[p], f)
    \/ \E t \in Txs, p \in StorePreds : ViewDelete(t, "ok", Preds[p])
    \/ \E t \in Txs, p \in StorePreds : ViewQueryOne(t, "ok", Preds[p])
    \/ \E t \in Txs, p \in StorePreds : ViewQueryMany(t, "ok", Preds[p])
    \/ \E t \in Txs, p \in StorePreds, limit \in 0..MaxLimit, offset \in 0..MaxOffset :
          ViewQueryManyWithPagination(t, "ok", Preds[p], limit, offset)
    \/ \E t \in Txs : ViewAll(t, "ok")
    \/ \E t \in Txs : ViewCount(t, "ok")

Spec == Init /\ [][Next]_vars

-----------------------------------------------------------------------------
(* SpecCtx: every handler, with a live or an already cancelled context,    *)
(* one transaction                                                         *)

CtxFoos == {1}
CtxPred == Preds[2]

NextCtx ==
    \/ \E ctx \in Ctxs : Begin("t1", ctx)
    \/ Commit("t1")
    \/ Rollback("t1")
    \/ \E ctx \in Ctxs : TableCreateTable(ctx)
    \/ \E ctx \in Ctxs, i \in 1..Len(IndexFields) : TableCreateIndex(ctx, IndexFields[i])
    \/ \E ctx \in Ctxs, k \in 1..Len(IndexSets) : TableCreateIndexes(ctx, IndexSets[k])
    \/ \E ctx \in Ctxs, f \in CtxFoos : Len(db.rows) < MaxRows /\ TableInsert(ctx, f)
    \/ \E ctx \in Ctxs, f \in CtxFoos : TableUpdate(ctx, CtxPred, f)
    \/ \E ctx \in Ctxs : TableDelete(ctx, CtxPred)
    \/ \E ctx \in Ctxs : TableQueryOne(ctx, CtxPred)
    \/ \E ctx \in Ctxs : TableQueryMany(ctx, CtxPred)
    \/ \E ctx \in Ctxs, limit \in 0..MaxLimit, offset \in 0..MaxOffset :
          TableQueryManyWithPagination(ctx, CtxPred, limit, offset)
    \/ \E ctx \in Ctxs : TableAll(ctx)
    \/ \E ctx \in Ctxs : TableCount(ctx)
    \/ \E ctx \in Ctxs, f \in CtxFoos :
          Len(TxView(db, "t1")) < MaxRows /\ ViewInsert("t1", ctx, f)
    \/ \E ctx \in Ctxs, f \in CtxFoos : ViewUpdate("t1", ctx, CtxPred, f)
    \/ \E ctx \in Ctxs : ViewDelete("t1", ctx, CtxPred)
    \/ \E ctx \in Ctxs : ViewQueryOne("t1", ctx, CtxPred)
    \/ \E ctx \in Ctxs : ViewQueryMany("t1", ctx, CtxPred)
    \/ \E ctx \in Ctxs, limit \in 0..MaxLimit, offset \in 0..MaxOffset :
          ViewQueryManyWithPagination("t1", ctx, CtxPred, limit, offset)
    \/ \E ctx \in Ctxs : ViewAll("t1", ctx)
    \/ \E ctx \in Ctxs : ViewCount("t1", ctx)

SpecCtx == Init /\ [][NextCtx]_vars

-----------------------------------------------------------------------------
(* SpecTable: one plain Table and the predicate cl its caller has built;   *)
(* every call is made with a live context and the caller's predicate       *)

MaxTableRows == 3
TableFoos == {1, 3, 4}

\* predicates over the fields of Foo, one of each variant
TablePreds ==
    <<All,
      Equal(namePath, StrV(<<"a">>)),
      NotEqual(barNamePath, StrV(<<"x">>)),
      GreaterThan(idPath, IntV(1)),
      LessThanOrEqual(idPath, IntV(3)),
      Like(namePath, StrV(<<"injection", "%">>)),
      In(idPath, <<IntV(4), IntV(1)>>),
      In(namePath, <<>>),
      Between(idPath, IntV(2), IntV(4)),
      Contains(listPath, StrV(<<"b">>)),
      ContainsAll(listPath, <<StrV(<<"a">>), StrV(<<"b">>)>>),
      ContainsAny(listPath, <<StrV(<<"a">>), StrV(<<"c">>)>>),
      Equal(namePath, StrV(InjectedValue)),
      Or(<<Equal(namePath, StrV(InjectedValue)), Equal(idPath, IntV(1))>>),
      FluentAnd(Equal(barNamePath, StrV(<<"x">>)), LessThan(idPath, IntV(4)))>>

\* the caller builds a predicate
TableBuild(i) ==
    /\ cl' = TablePreds[i]
    /\ UNCHANGED <<db, abs, made>>

NextTable ==
    \/ \E i \in 1..Len(TablePreds) : TableBuild(i)
    \/ \E f \in TableFoos : Len(db.rows) < MaxTableRows /\ TableInsert("ok", f)
    \/ \E f \in TableFoos : TableUpdate("ok", cl, f)
    \/ TableDelete("ok", cl)
    \/ TableQueryOne("ok", cl)
    \/ TableQueryMany("ok", cl)
    \/ \E limit \in 0..MaxTableRows, offset \in 0..MaxTableRows :
          TableQueryManyWithPagination("ok", cl, limit, offset)
    \/ TableAll("ok")
    \/ TableCount("ok")

SpecTable == Init /\ [][NextTable]_vars

-----------------------------------------------------------------------------
(* SpecClause: the caller builds a predicate with the constructors and the *)
(* fluent methods.  made records what the caller supplied: vals, the       *)
(* values in the order they were given, left to right; depth, the number   *)
(* of combinators applied.                                                 *)

ClauseValues == {StrV(<<"a">>), IntV(2), IntV(1)}

\* the value lists of at most two values
ClauseLists ==
    {<<>>} \cup {<<v>> : v \in ClauseValues} \cup {<<v, w>> : v, w \in ClauseValues}

Comparisons(field, value) ==
    <<Equal(field, value), NotEqual(field, value), LessThan(field, value),
      GreaterThan(field, value), LessThanOrEqual(field, value),
      GreaterThanOrEqual(field, value), Like(field, value)>>

\* predicates the caller combines with the one being built, each with the
\* values it was given
Operands ==
    <<[c |-> Equal(idPath, IntV(3)), vals |-> <<IntV(3)>>],
      [c |-> Between(idPath, IntV(4), IntV(1)), vals |-> <<IntV(4), IntV(1)>>],
      [c |-> Or(<<In(namePath, <<StrV(<<"b">>), StrV(<<"a">>)>>),
                  ContainsAny(listPath, <<StrV(<<"c">>), StrV(<<"a">>)>>)>>),
       vals |-> <<StrV(<<"b">>), StrV(<<"a">>), StrV(<<"c">>), StrV(<<"a">>)>>]>>

Built(c, vals, depth) ==
    /\ cl' = c
    /\ made' = [vals |-> vals, depth |-> depth]
    /\ UNCHANGED <<db, abs>>

MakeComparison(i, value) == Built(Comparisons(namePath, value)[i], <<value>>, 0)
MakeIn(values) == Built(In(namePath, values), values, 0)
MakeBetween(from, to) == Built(Between(namePath, from, to), <<from, to>>, 0)
MakeContains(value) == Built(Contains(listPath, value), <<value>>, 0)
MakeContainsAll(values) == Built(ContainsAll(listPath, values), values, 0)
MakeContainsAny(values) == Built(ContainsAny(listPath, values), values, 0)
MakeAnd(q) == Built(And(<<cl, q.c>>), made.vals \o q.vals, made.depth + 1)
MakeOr(q) == Built(Or(<<q.c, cl>>), q.vals \o made.vals, made.depth + 1)
MakeAndOfThree(q) ==
    Built(And(<<q.c, cl, q.c>>), q.vals \o made.vals \o q.vals, made.depth + 1)
MakeEmpty(combinator) == Built(combine(combinator, <<>>), <<>>, 0)
CallAnd(q) == Built(FluentAnd(cl, q.c), made.vals \o q.vals, made.depth + 1)
CallOr(q) == Built(FluentOr(cl, q.c), made.vals \o q.vals, made.depth + 1)

NextClause ==
    \/ \E i \in 1..7, v \in ClauseValues : MakeComparison(i, v)
    \/ \E vs \in ClauseLists : MakeIn(vs)
    \/ \E v, w \in ClauseValues : MakeBetween(v, w)
    \/ \E v \in ClauseValues : MakeContains(v)
    \/ \E vs \in ClauseLists : MakeContainsAll(vs)
    \/ \E vs \in ClauseLists : MakeContainsAny(vs)
    \/ \E c \in {andCombinator, orCombinator} : MakeEmpty(c)
    \/ \E i \in 1..Len(Operands) : made.depth < MaxDepth /\ MakeAnd(Operands[i])
    \/ \E i \in 1..Len(Operands) : made.depth < MaxDepth /\ MakeOr(Operands[i])
    \/ \E i \in 1..Len(Operands) : made.depth < MaxDepth /\ MakeAndOfThree(Operands[i])
    \/ \E i \in 1..Len(Operands) : made.depth < MaxDepth /\ CallAnd(Operands[i])
    \/ \E i \in 1..Len(Operands) : made.depth < MaxDepth /\ CallOr(Operands[i])

SpecClause == Init /\ [][NextClause]_vars

-----------------------------------------------------------------------------
(* SpecTypes: one store and a Table for each of several record types.  The *)
(* database keeps one relation per table name (db.rels); a statement works *)
(* on the relation its text names.  The record types differ in name only:  *)
(* their documents are drawn from the same records, so that two tables can *)
(* hold documents with identical field values.                             *)

MaxTypeRows == 2
TypeFoos == {1, 2, 3}
TypePreds == {Preds[i] : i \in 1..5}

\* type IDOne ID and type IDTwo ID of the tests, and a type IdOne beside them
IDOne == <<"nosqlite", ".", "IDOne">>
IDTwo == <<"nosqlite", ".", "IDTwo">>
IdOne == <<"nosqlite", ".", "IdOne">>
RecordTypes == {IDOne, IDTwo, IdOne}

\* the Table[T] that NewTable[T] returns
TableOf(T) == [Name |-> tableName(T)]

TableNames == {TableOf(T).Name : T \in RecordTypes}

\* the database as the statements of table n see it
WithRelation(d, n) == [d EXCEPT !.rows = d.rels[n.Name]]

\* the database once a statement of table n has run with result r
Stored(n, r) ==
    [r EXCEPT !.db = [r.db EXCEPT !.rels[n.Name] = r.db.rows, !.rows = <<>>]]

Typed_Insert(d, T, f) ==
    Stored(TableOf(T), Table_Insert(WithRelation(d, TableOf(T)), TableOf(T), "ok", Foos[f]))
Typed_Update(d, T, p, f) ==
    Stored(TableOf(T), Table_Update(WithRelation(d, TableOf(T)), TableOf(T), "ok", p, Foos[f]))
Typed_Delete(d, T, p) ==
    Stored(TableOf(T), Table_Delete(WithRelation(d, TableOf(T)), TableOf(T), "ok", p))
Typed_All(d, T) == Table_All(WithRelation(d, TableOf(T)), TableOf(T), "ok")
Typed_Count(d, T) == Table_Count(WithRelation(d, TableOf(T)), TableOf(T), "ok")

\* NewTable[T] has been called for every record type
InitTypes ==
    /\ db = [rows |-> <<>>, tables |-> TableNames, indexes |-> {},
             tx |-> [t \in Txs |-> NoTx], rels |-> [name \in TableNames |-> <<>>]]
    /\ abs = NoAbs
    /\ cl = All
    /\ made = NoClause

TypedInsert(T, f) ==
    /\ Len(db.rels[TableOf(T).Name]) < MaxTypeRows
    /\ db' = Typed_Insert(db, T, f).db
    /\ UNCHANGED <<abs, cl, made>>

TypedUpdate(T, p, f) ==
    /\ db' = Typed_Update(db, T, p, f).db
    /\ UNCHANGED <<abs, cl, made>>

TypedDelete(T, p) ==
    /\ db' = Typed_Delete(db, T, p).db
    /\ UNCHANGED <<abs, cl, made>>

NextTypes ==
    \/ \E T \in RecordTypes, f \in TypeFoos : TypedInsert(T, f)
    \/ \E T \in RecordTypes, p \in TypePreds, f \in TypeFoos : TypedUpdate(T, p, f)
    \/ \E T \in RecordTypes, p \in TypePreds : TypedDelete(T, p)

SpecTypes == InitTypes /\ [][NextTypes]_vars

-----------------------------------------------------------------------------
(* SpecIndex: one plain Table on which the caller creates indexes, on      *)
(* field paths written with the root marker and without it, and inserts    *)
(* records                                                                 *)

MaxIndexRows == 2
IndexFoos == {1, 2}

\* "id" as in the README's CreateIndex(ctx, "id"), "name", "$.id", "$.name",
\* "$.bar.name" and "$.bar__name"
IndexLists ==
    << << <<"id">> >>,
       << <<"name">> >>,
       <<idPath>>,
       <<namePath>>,
       <<barNamePath>>,
       << <<"$", ".", "bar__name">> >> >>

NextIndex ==
    \/ \E ctx \in Ctxs, k \in 1..Len(IndexLists) : TableCreateIndex(ctx, IndexLists[k])
    \/ \E f \in IndexFoos : Len(db.rows) < MaxIndexRows /\ TableInsert("ok", f)

SpecIndex == Init /\ [][NextIndex]_vars

-----------------------------------------------------------------------------
(* SpecPool: the connections behind Store.db.  sql.DB is a pool: a call on *)
(* the pool takes an idle connection, or opens one when none is idle, and  *)
(* gives it back when the call is over; a transaction keeps its connection *)
(* until Commit or Rollback.  Here the database is                         *)
(*   conns  per connection: st ("closed", "idle", "db" while a call of the *)
(*          plain Table runs on it, or the transaction that holds it),     *)
(*          busy and sync (the busy-wait timeout and the sync mode have    *)
(*          been set on it: both are settings of a connection)             *)
(*   wal    the database file is in write-ahead-logging mode (the journal  *)
(*          mode is kept in the file and met by every connection)          *)
(*   ran    for the statements run so far: whose statement it was (of a    *)
(*          Table, a Transaction or a TableWithTx) and the settings of the *)
(*          connection it ran on                                           *)

MaxConns == 3
ConnIds == 1..MaxConns

\* database/sql keeps at most two idle connections unless told otherwise
MaxIdleConns == 2

ClosedConn == [st |-> "closed", busy |-> FALSE, sync |-> FALSE]

\* sql.Open: a pool without connections
sql_Open == [conns |-> [k \in ConnIds |-> ClosedConn], wal |-> FALSE, ran |-> {}]

IdleConns(d) == {k \in ConnIds : d.conns[k].st = "idle"}
ClosedConns(d) == {k \in ConnIds : d.conns[k].st = "closed"}

\* the connections a call on the pool can get: any idle one, else a new one
FreeConns(d) ==
    IF IdleConns(d) # {} THEN IdleConns(d)
    ELSE {k \in ClosedConns(d) : \A j \in ClosedConns(d) : k <= j}

\* connection k, opened if it was closed, taken by who
Acquire(d, k, who) == [d EXCEPT !.conns[k].st = who]

\* connection k given back: kept idle, or closed when enough are idle
Release(d, k) ==
    IF Cardinality(IdleConns(d)) >= MaxIdleConns THEN [d EXCEPT !.conns[k] = ClosedConn]
    ELSE [d EXCEPT !.conns[k].st = "idle"]

\* PRAGMA p = ... run on connection k
Pragma(d, k, p) ==
    CASE p = "busy_timeout" -> [d EXCEPT !.conns[k].busy = TRUE]
      [] p = "synchronous" -> [d EXCEPT !.conns[k].sync = TRUE]
      [] p = "journal_mode" -> [d EXCEPT !.wal = TRUE]

\* db.Exec of a PRAGMA on a pool no other caller uses
DB_Exec_Pragma_On(d, k, p) == Release(Pragma(Acquire(d, k, "db"), k, p), k)
DB_Exec_Pragma(d, p) == DB_Exec_Pragma_On(d, CHOOSE k \in FreeConns(d) : TRUE, p)

NewStoreWithDB(d) ==
    DB_Exec_Pragma(DB_Exec_Pragma(DB_Exec_Pragma(d, "busy_timeout"), "synchronous"),
                   "journal_mode")

\* the settings a statement meets on connection k
Settings(d, k) == [busy |-> d.conns[k].busy, sync |-> d.conns[k].sync, wal |-> d.wal]

\* a statement of what runs on connection k
RunOn(d, k, what) == [d EXCEPT !.ran = @ \cup {<<what, Settings(d, k)>>}]

InitPool ==
    /\ db = NewStoreWithDB(sql_Open)
    /\ abs = NoAbs
    /\ cl = All
    /\ made = NoClause

Holds_Conn(t) == {k \in ConnIds : db.conns[k].st = t}

\* Store.BeginTx: the transaction takes a connection and begins on it
PoolBeginTx(t, k) ==
    /\ Holds_Conn(t) = {}
    /\ k \in FreeConns(db)
    /\ db' = RunOn(Acquire(db, k, t), k, "Transaction")
    /\ UNCHANGED <<abs, cl, made>>

\* Transaction.Commit and Transaction.Rollback: the statement runs on the
\* transaction's connection, which goes back to the pool
PoolEndTx(t, k) ==
    /\ k \in Holds_Conn(t)
    /\ db' = Release(RunOn(db, k, "Transaction"), k)
    /\ UNCHANGED <<abs, cl, made>>

\* an operation of TableWithTx: its statement runs on the transaction's
\* connection
PoolViewStatement(t, k) ==
    /\ k \in Holds_Conn(t)
    /\ db' = RunOn(db, k, "TableWithTx")
    /\ UNCHANGED <<abs, cl, made>>

\* an operation of the plain Table: its statement runs on a connection of
\* the pool
PoolTableStatement(k) ==
    /\ k \in FreeConns(db)
    /\ db' = Release(RunOn(Acquire(db, k, "db"), k, "Table"), k)
    /\ UNCHANGED <<abs, cl, made>>

NextPool ==
    \/ \E t \in Txs, k \in ConnIds : PoolBeginTx(t, k)
    \/ \E t \in Txs, k \in ConnIds : PoolEndTx(t, k)
    \/ \E t \in Txs, k \in ConnIds : PoolViewStatement(t, k)
    \/ \E k \in ConnIds : PoolTableStatement(k)

SpecPool == InitPool /\ [][NextPool]_vars

-----------------------------------------------------------------------------
(* The calls a caller can make in the current state, with what they return *)

ReadPreds == {Preds[i] : i \in 1..5}
Windows == (0..(MaxLimit + 1)) \X (0..(MaxOffset + 1))

\* the reads through the plain Table
TableReads ==
    {Call("QueryOne", "db", "ok", p, 0, 0, 0, Table_QueryOne(db, NewTable, "ok", p)) :
        p \in ReadPreds}
    \cup {Call("QueryMany", "db", "ok", p, 0, 0, 0, Table_QueryMany(db, NewTable, "ok", p)) :
            p \in ReadPreds}
    \cup {Call("QueryManyWithPagination", "db", "ok", pw[1], 0, pw[2][1], pw[2][2],
               Table_QueryManyWithPagination(db, NewTable, "ok", pw[1], pw[2][1], pw[2][2])) :
            pw \in ReadPreds \X Windows}
    \cup {Call("All", "db", "ok", All, 0, 0, 0, Table_All(db, NewTable, "ok")),
          Call("Count", "db", "ok", All, 0, 0, 0, Table_Count(db, NewTable, "ok"))}

\* the reads through the view bound to transaction t
ViewReads(t) ==
    {Call("QueryOne", t, "ok", p, 0, 0, 0, TableWithTx_QueryOne(db, View(t), "ok", p)) :
        p \in ReadPreds}
    \cup {Call("QueryMany", t, "ok", p, 0, 0, 0, TableWithTx_QueryMany(db, View(t), "ok", p)) :
            p \in ReadPreds}
    \cup {Call("QueryManyWithPagination", t, "ok", pw[1], 0, pw[2][1], pw[2][2],
               TableWithTx_QueryManyWithPagination(db, View(t), "ok", pw[1],
                                                   pw[2][1], pw[2][2])) :
            pw \in ReadPreds \X Windows}
    \cup {Call("All", t, "ok", All, 0, 0, 0, TableWithTx_All(db, View(t), "ok")),
          Call("Count", t, "ok", All, 0, 0, 0, TableWithTx_Count(db, View(t), "ok"))}

\* what every operation of the plain Table returns when called with ctx
TableResults(ctx) ==
    {Table_Insert(db, NewTable, ctx, Foos[f]) : f \in StoreFoos}
    \cup {Table_Update(db, NewTable, ctx, pf[1], Foos[pf[2]]) : pf \in ReadPreds \X StoreFoos}
    \cup {Table_Delete(db, NewTable, ctx, p) : p \in ReadPreds}
    \cup {Table_QueryOne(db, NewTable, ctx, p) : p \in ReadPreds}
    \cup {Table_QueryMany(db, NewTable, ctx, p) : p \in ReadPreds}
    \cup {Table_QueryManyWithPagination(db, NewTable, ctx, pw[1], pw[2][1], pw[2][2]) :
            pw \in ReadPreds \X Windows}
    \cup {Table_All(db, NewTable, ctx), Table_Count(db, NewTable, ctx),
          Table_CreateTable(db, NewTable, ctx)}
    \cup {Table_CreateIndex(db, NewTable, ctx, IndexFields[i]) : i \in 1..Len(IndexFields)}

\* what every operation of the view bound to t returns when called with ctx
ViewResults(t, ctx) ==
    {TableWithTx_Insert(db, View(t), ctx, Foos[f]) : f \in StoreFoos}
    \cup {TableWithTx_Update(db, View(t), ctx, pf[1], Foos[pf[2]]) :
            pf \in ReadPreds \X StoreFoos}
    \cup {TableWithTx_Delete(db, View(t), ctx, p) : p \in ReadPreds}
    \cup {TableWithTx_QueryOne(db, View(t), ctx, p) : p \in ReadPreds}
    \cup {TableWithTx_QueryMany(db, View(t), ctx, p) : p \in ReadPreds}
    \cup {TableWithTx_QueryManyWithPagination(db, View(t), ctx, pw[1], pw[2][1], pw[2][2]) :
            pw \in ReadPreds \X Windows}
    \cup {TableWithTx_All(db, View(t), ctx), TableWithTx_Count(db, View(t), ctx)}

Open(t) == db.tx[t].st = "open"
Ended(t) == abs.over[t] # ""

\* the view's pagination with no limit and an offset
OffsetOnly(c) == c.op = "QueryManyWithPagination" /\ c.limit = 0 /\ c.offset > 0

-----------------------------------------------------------------------------
(* Transactions *)

C2_RollbackRestores ==
    \A t \in Txs : (abs.over[t] = "Rollback" /\ abs.base[t] # <<>>) =>
        \A c \in TableReads : Agrees(c, abs.base[t][1])

\* a transaction that had written through its view was rolled back, and
\* the table holds the records it held when the transaction began
C2_Witness ==
    \E t \in Txs :
        /\ abs.over[t] = "Rollback" /\ abs.dirty[t]
        /\ abs.base[t] # <<>> /\ Len(abs.base[t][1]) > 0
        /\ Table_QueryMany(db, NewTable, "ok", All).rows = abs.base[t][1]

\* C3: once Commit or Rollback has succeeded on a transaction, every
\* further Commit and Rollback on it, and every operation through a view
\* bound to it, returns an error and leaves the database as it is.
C3_TerminalAfterEnd ==
    \A t \in Txs : Ended(t) =>
        /\ Tx_Commit(db, t).err # "" /\ Tx_Commit(db, t).db = db
        /\ Tx_Rollback(db, t).err # "" /\ Tx_Rollback(db, t).db = db
        /\ \A r \in ViewResults(t, "ok") : r.err # "" /\ r.rows = <<>> /\ r.db = db

\* one transaction was committed, the other rolled back, the table holds
\* rows, and an Insert through the committed one's view is refused
C3_Witness ==
    /\ abs.over["t1"] = "Commit" /\ abs.over["t2"] = "Rollback"
    /\ Len(db.rows) > 0
    /\ TableWithTx_Insert(db, View("t1"), "ok", Foos[1]).err = ErrTxDone

\* C5: in an open transaction the view's QueryManyWithPagination returns,
\* without error, the window the Table's QueryManyWithPagination returns
\* over the rows the transaction sees, for every predicate, limit and offset
C5_ViewPaginationAsTable ==
    \A t \in Txs : Open(t) =>
        \A pw \in ReadPreds \X Windows :
            /\ TableWithTx_QueryManyWithPagination(db, View(t), "ok", pw[1],
                                                   pw[2][1], pw[2][2]).err = ""
            /\ TableWithTx_QueryManyWithPagination(db, View(t), "ok", pw[1],
                                                   pw[2][1], pw[2][2]).rows
               = Table_QueryManyWithPagination([db EXCEPT !.rows = TxView(db, t)], NewTable,
                                               "ok", pw[1], pw[2][1], pw[2][2]).rows

-----------------------------------------------------------------------------
(* Pagination, contexts, injection *)

TableWindows == (0..(MaxTableRows + 1)) \X (0..(MaxTableRows + 1))

\* C4: whatever the table holds and whatever predicate the caller built,
\* with M the records that match it in insertion order,
\* Table.QueryManyWithPagination(P, limit, offset) returns without error M
\* less its first offset records, cut to limit records when limit > 0:
\* nothing when offset >= Len(M), all of M when limit >= Len(M) and offset = 0
C4_TablePagination ==
    \A w \in TableWindows :
        /\ Table_QueryManyWithPagination(db, NewTable, "ok", cl, w[1], w[2]).err = ""
        /\ ~Table_QueryManyWithPagination(db, NewTable, "ok", cl, w[1], w[2]).nil
        /\ Table_QueryManyWithPagination(db, NewTable, "ok", cl, w[1], w[2]).rows
           = Page(Matching(abs.main, cl), w[1], w[2])
        /\ w[2] >= Len(Matching(abs.main, cl)) =>
              Table_QueryManyWithPagination(db, NewTable, "ok", cl, w[1], w[2]).rows = <<>>
        /\ (w[1] >= Len(Matching(abs.main, cl)) /\ w[2] = 0) =>
              Table_QueryManyWithPagination(db, NewTable, "ok", cl, w[1], w[2]).rows
              = Matching(abs.main, cl)

\* the table holds three records, two of them match the caller's predicate,
\* and limit 1 offset 1 returns the second of the two
C4_Witness ==
    /\ Len(abs.main) = 3
    /\ Len(Matching(abs.main, cl)) = 2
    /\ Table_QueryManyWithPagination(db, NewTable, "ok", cl, 1, 1).rows
       = <<Matching(abs.main, cl)[2]>>
    /\ Table_QueryManyWithPagination(db, NewTable, "ok", cl, 0, 1).rows
       = <<Matching(abs.main, cl)[2]>>

\* C6: every operation of the Table, and of a view whose transaction has
\* begun, called with a context that is already cancelled returns the
\* context's error, hands no statement to the engine and leaves the database
\* as it is
C6_CancelledContext ==
    /\ \A r \in TableResults("cancelled") :
          r.err = Canceled /\ r.issued = 0 /\ r.rows = <<>> /\ r.db = db
    /\ \A t \in Txs : Began(t) =>
          \A r \in ViewResults(t, "cancelled") :
              r.err = Canceled /\ r.issued = 0 /\ r.rows = <<>> /\ r.db = db

\* the table holds rows and a transaction is open: a Delete of every row
\* with a live context empties the table, with a cancelled one it does not
C6_Witness ==
    /\ Len(db.rows) > 0 /\ Open("t1")
    /\ Table_Delete(db, NewTable, "ok", All).db.rows = <<>>
    /\ Table_Delete(db, NewTable, "cancelled", All).err = Canceled
    /\ TableWithTx_Delete(db, View("t1"), "ok", All).err = ""
    /\ TableWithTx_Delete(db, View("t1"), "cancelled", All).err = Canceled

RECURSIVE WithValue(_, _)
\* the predicate built as c was built, with v given for each of its values
WithValue(c, v) ==
    CASE c.kind = "combinator" ->
            combine(c.combinator, [i \in 1..Len(c.clauses) |-> WithValue(c.clauses[i], v)])
      [] c.kind = "condition" -> newCondition(c.Field, v, c.Operator)
      [] c.kind = "in" -> In(c.Field, [i \in 1..Len(c.values) |-> v])
      [] c.kind = "between" -> Between(c.Field, v, v)
      [] c.kind = "contains" ->
            newContainsCondition(c.Field, c.combinator, [i \in 1..Len(c.values) |-> v])

OtherValues ==
    {StrV(InjectedValue), StrV(<<"'", ")", "OR", "1", "=", "1", "--">>), StrV(<<"z">>), IntV(0)}

ByInjectedValue == Equal(namePath, StrV(InjectedValue))

BrokenFields == {InjectedField, ClosedInjectedField}

\* C8: a query whose field path holds a quote fails with an error of the
\* engine and returns no rows
C8_BrokenFieldFails ==
    \A f \in BrokenFields :
        /\ Table_QueryOne(db, NewTable, "ok", Equal(f, StrV(<<"injection">>))).err # ""
        /\ Table_QueryOne(db, NewTable, "ok", Equal(f, StrV(<<"injection">>))).rows = <<>>
        /\ Table_QueryMany(db, NewTable, "ok", Equal(f, StrV(<<"injection">>))).err # ""
        /\ Table_QueryMany(db, NewTable, "ok", Equal(f, StrV(<<"injection">>))).rows = <<>>

-----------------------------------------------------------------------------
(* The predicate algebra *)

Placeholders(text) == Cardinality({i \in 1..Len(text) : text[i] = "?"})

\* C9: the Clause() of the predicate the caller has built holds as many
\* placeholders as Values() holds values, and Values() is the list of the
\* values the caller gave, in the order they were given from left to right
C9_ValuesMatchPlaceholders ==
    /\ Placeholders(Clause(cl)) = Len(Values(cl))
    /\ Values(cl) = made.vals

\* a combinator of combinators over a Between whose bounds were given the
\* larger first
C9_Witness ==
    /\ made.depth = 2
    /\ cl.kind = "combinator" /\ Len(cl.clauses) = 3
    /\ cl.clauses[2].kind = "combinator" /\ Len(cl.clauses[2].clauses) = 2
    /\ cl.clauses[2].clauses[1].kind = "between"
    /\ cl.clauses[2].clauses[1].From = IntV(2) /\ cl.clauses[2].clauses[1].To = IntV(1)
    /\ Len(Values(cl)) = 11

Same(x, y) == Clause(x) = Clause(y) /\ Values(x) = Values(y)

\* C10: for the predicate P the caller has built and every Q and R,
\* P.And(Q) renders the text and the values of And(P, Q), P.Or(Q) those of
\* Or(P, Q), the same with Q as the receiver, and P.And(Q).Or(R) those of
\* Or(And(P, Q), R)
C10_FluentAsFunctions ==
    \A i, j \in 1..Len(Operands) :
        /\ Same(FluentAnd(cl, Operands[i].c), And(<<cl, Operands[i].c>>))
        /\ Same(FluentOr(cl, Operands[i].c), Or(<<cl, Operands[i].c>>))
        /\ Same(FluentAnd(Operands[i].c, cl), And(<<Operands[i].c, cl>>))
        /\ Same(FluentOr(Operands[i].c, cl), Or(<<Operands[i].c, cl>>))
        /\ Same(FluentOr(FluentAnd(cl, Operands[i].c), Operands[j].c),
                Or(<<And(<<cl, Operands[i].c>>), Operands[j].c>>))

\* the caller's predicate is a comparison with a Between added by its And
\* method, whose text differs from that of the two the other way round
C10_Witness ==
    /\ made.depth = 1
    /\ cl.kind = "combinator" /\ Len(cl.clauses) = 2
    /\ cl.clauses[1].kind = "condition" /\ cl.clauses[2].kind = "between"
    /\ cl = FluentAnd(cl.clauses[1], cl.clauses[2])
    /\ Clause(cl) # Clause(And(<<cl.clauses[2], cl.clauses[1]>>))

-----------------------------------------------------------------------------
(* Reads and writes of one table *)

\* QueryOne against QueryMany in the same state, over the records S the
\* contract says the caller sees
OneOfMany(one, many, S, p) ==
    /\ one.err = ""
    /\ many.err = ""
    /\ one.nil <=> Matching(S, p) = <<>>
    /\ one.nil => one.rows = <<>> /\ many.rows = <<>>
    /\ ~one.nil => many.rows # <<>> /\ one.rows = <<many.rows[1]>>

ScalarPaths == {idPath, namePath, barNamePath}
RoundTripFoos == {Foos[f] : f \in TableFoos} \cup {NewFoo(0, <<"a">>, <<"x">>, <<>>)}
RoundTrips == RoundTripFoos \X ScalarPaths

\* the document of foo holds a value at path
Stores(foo, path) == JsonExtract(Marshal(foo), path).t # "null"

ByField(foo, path) == Equal(path, FieldOf(foo, path))

\* QueryOne(Equal(f, r.f)) after Insert(r) returns a record equal to r
ReadBack(ins, r, f) ==
    ins.err = "" =>
        /\ Table_QueryOne(ins.db, NewTable, "ok", ByField(r, f)).err = ""
        /\ Table_QueryOne(ins.db, NewTable, "ok", ByField(r, f)).rows = <<r>>

\* QueryOne(Equal(f, r.f)) after Insert(r) returns the first record of S
\* with r's value in f, and r when there is none; r is the last record of
\* QueryMany(Equal(f, r.f))
ReadBackFirst(ins, S, r, f) ==
    ins.err = "" /\ Stores(r, f) =>
        /\ Table_QueryOne(ins.db, NewTable, "ok", ByField(r, f)).err = ""
        /\ Table_QueryOne(ins.db, NewTable, "ok", ByField(r, f)).rows =
              <<Matching(Append(S, r), ByField(r, f))[1]>>
        /\ Matching(S, ByField(r, f)) = <<>> =>
              Table_QueryOne(ins.db, NewTable, "ok", ByField(r, f)).rows = <<r>>
        /\ Table_QueryMany(ins.db, NewTable, "ok", ByField(r, f)).rows =
              Append(Matching(S, ByField(r, f)), r)

\* C12 as stated: in any state of the table, after Insert(r) succeeds,
\* QueryOne(Equal(f, r.f)) on any of r's fields returns a record equal to r.
C12_InsertThenQueryOne ==
    \A rf \in RoundTrips :
        ReadBack(Table_Insert(db, NewTable, "ok", rf[1]), rf[1], rf[2])

\* C12, amended: in any state of the table, after Insert(r) succeeds,
\* QueryOne(Equal(f, r.f)) on a field f that r's document holds returns the
\* first record of the table with r's value in f, which is a record equal
\* to r when no row stored before has that value; r itself is the last
\* record of QueryMany(Equal(f, r.f)).
C12_InsertThenQueryFirst ==
    \A rf \in RoundTrips :
        ReadBackFirst(Table_Insert(db, NewTable, "ok", rf[1]), abs.main, rf[1], rf[2])

\* the table holds a record named "a" with id 1, and the record named "a"
\* with id 3 is inserted: QueryOne by name returns the record with id 1
C12_Witness ==
    /\ Len(abs.main) = 2
    /\ abs.main[1] = Foos[1]
    /\ Table_Insert(db, NewTable, "ok", Foos[3]).err = ""
    /\ Table_QueryOne(Table_Insert(db, NewTable, "ok", Foos[3]).db, NewTable, "ok",
                      ByField(Foos[3], namePath)).rows = <<Foos[1]>>
    /\ Table_QueryOne(Table_Insert(db, NewTable, "ok", Foos[3]).db, NewTable, "ok",
                      ByField(Foos[3], idPath)).rows = <<Foos[3]>>

\* the pairs (i, f) of a record S[i] that matches c and a scalar field f in
\* which newVal differs from it: the old values an Update(c, newVal) replaces
OldValues(S, c, newVal) ==
    {rf \in (1..Len(S)) \X ScalarPaths :
        Holds(c, S[rf[1]]) /\ FieldOf(S[rf[1]], rf[2]) # FieldOf(newVal, rf[2])}

AllEqual(rows, foo) == \A i \in 1..Len(rows) : rows[i] = foo

\* after Update(c, newVal) on the records S: the query with c returns only
\* records equal to newVal, and the query for a replaced value is empty
UpdateThenQuery(upd, S, c, newVal) ==
    upd.err = "" /\ Matching(S, c) # <<>> =>
        /\ Table_QueryMany(upd.db, NewTable, "ok", c).err = ""
        /\ AllEqual(Table_QueryMany(upd.db, NewTable, "ok", c).rows, newVal)
        /\ \A rf \in OldValues(S, c, newVal) :
              Table_QueryMany(upd.db, NewTable, "ok", ByField(S[rf[1]], rf[2])).rows = <<>>

\* after Update(c, newVal) on the records S: the query with c returns one
\* newVal per matched record when newVal satisfies c and nothing when it
\* does not, and the query for a replaced value returns the records of S
\* that hold the value and did not match c
UpdateThenQueryRest(upd, S, c, newVal) ==
    upd.err = "" /\ Matching(S, c) # <<>> =>
        /\ Table_QueryMany(upd.db, NewTable, "ok", c).err = ""
        /\ Table_QueryMany(upd.db, NewTable, "ok", c).rows =
              (IF Holds(c, newVal) THEN [i \in 1..Len(Matching(S, c)) |-> newVal] ELSE <<>>)
        /\ \A rf \in OldValues(S, c, newVal) :
              Table_QueryMany(upd.db, NewTable, "ok", ByField(S[rf[1]], rf[2])).rows =
                  Matching(Deleted(S, c), ByField(S[rf[1]], rf[2]))

\* C13 as stated: after Update(P, newRecord) has matched at least one row, a
\* query with the same predicate P returns records equal to newRecord, and a
\* query for the old values (Equal(f, old.f), as the test queries) is empty.
C13_UpdateThenQuery ==
    \A f \in TableFoos :
        UpdateThenQuery(Table_Update(db, NewTable, "ok", cl, Foos[f]), abs.main, cl, Foos[f])

\* C13, amended: after Update(P, newRecord) has matched at least one row, a
\* query with the same predicate P returns only records equal to newRecord
\* (one per matched row when newRecord satisfies P, none when it does not),
\* and a query for a value the update replaced returns no replaced row: it
\* returns exactly the rows that hold the value and did not match P.
C13_UpdateThenQueryRest ==
    \A f \in TableFoos :
        UpdateThenQueryRest(Table_Update(db, NewTable, "ok", cl, Foos[f]), abs.main,
                            cl, Foos[f])

\* the records with id 1 and id 3 are both named "a"; Update(id > 1, Foos[4])
\* replaces the second, and the query for its old name returns the first
C13_Witness ==
    /\ abs.main = <<Foos[1], Foos[3]>>
    /\ cl = TablePreds[4]
    /\ Table_Update(db, NewTable, "ok", cl, Foos[4]).err = ""
    /\ <<2, namePath>> \in OldValues(abs.main, cl, Foos[4])
    /\ Table_QueryMany(Table_Update(db, NewTable, "ok", cl, Foos[4]).db, NewTable, "ok",
                       cl).rows = <<Foos[4]>>
    /\ Table_QueryMany(Table_Update(db, NewTable, "ok", cl, Foos[4]).db, NewTable, "ok",
                       ByField(Foos[3], namePath)).rows = <<Foos[1]>>

\* the records of the table as the caller sees them: "" is the plain Table,
\* a transaction its view
SeenBy(d, who) == UnmarshalAll(IF who = "" THEN d.rows ELSE TxView(d, who))

\* the engine lets who write: no other open transaction holds the write
\* lock, and a transaction that has read has read the table as it is now
Writable(d, who) ==
    /\ ~WriteLocked(d, who)
    /\ who # "" => ~(d.tx[who].read /\ ~d.tx[who].wrote /\ d.tx[who].view # d.rows)

FramePreds == {Preds[i] : i \in {1, 2, 4, 6}}
FrameWrites == FramePreds \X StoreFoos

\* Update(c, newVal), called by who, with the Count that follows it
UpdateFrame(who, upd, cnt, c, newVal) ==
    /\ upd.err = "" <=> Writable(db, who)
    /\ upd.err = "" =>
          /\ SeenBy(upd.db, who) = Updated(SeenBy(db, who), c, newVal)
          /\ cnt.err = "" /\ cnt.count = Len(SeenBy(db, who))
    /\ upd.err # "" => upd.db = db
    /\ Matching(SeenBy(db, who), c) = <<>> => SeenBy(upd.db, who) = SeenBy(db, who)

\* C14: Update(P, newRecord), on the Table and on the view of an open
\* transaction, replaces every record that matches P with newRecord and
\* leaves every other record as it was; Count is the same before and after;
\* when P matches no row the call returns success and the table is unchanged.
\* The call fails only when the engine refuses the write (another transaction
\* holds the write lock), and then changes nothing.
C14_UpdateFrame ==
    /\ Table_Count(db, NewTable, "ok").count = Len(SeenBy(db, ""))
    /\ \A w \in FrameWrites :
          UpdateFrame("", Table_Update(db, NewTable, "ok", w[1], Foos[w[2]]),
                      Table_Count(Table_Update(db, NewTable, "ok", w[1], Foos[w[2]]).db,
                                  NewTable, "ok"),
                      w[1], Foos[w[2]])
    /\ \A t \in Txs : Open(t) =>
          /\ TableWithTx_Count(db, View(t), "ok").count = Len(SeenBy(db, t))
          /\ \A w \in FrameWrites :
                UpdateFrame(t, TableWithTx_Update(db, View(t), "ok", w[1], Foos[w[2]]),
                            TableWithTx_Count(
                                TableWithTx_Update(db, View(t), "ok", w[1], Foos[w[2]]).db,
                                View(t), "ok"),
                            w[1], Foos[w[2]])

\* the view of t1 holds the records with id 1 and id 2 and the Table holds
\* none: through the view, Update(id = 2, Foos[1]) replaces the second record
\* only, and Update(name = injected value, Foos[1]) matches nothing and
\* succeeds
C14_Witness ==
    /\ Open("t1")
    /\ SeenBy(db, "t1") = <<Foos[1], Foos[2]>>
    /\ SeenBy(db, "") = <<>>
    /\ TableWithTx_Update(db, View("t1"), "ok", Preds[4], Foos[1]).err = ""
    /\ SeenBy(TableWithTx_Update(db, View("t1"), "ok", Preds[4], Foos[1]).db, "t1")
          = <<Foos[1], Foos[1]>>
    /\ TableWithTx_Update(db, View("t1"), "ok", Preds[6], Foos[1]).err = ""
    /\ TableWithTx_Update(db, View("t1"), "ok", Preds[6], Foos[1]).count = 0

\* Delete(c) on the records S, with the QueryMany(c) and the All that follow
DeleteFrame(del, many, all, S, c) ==
    /\ del.err = ""
    /\ many.err = "" /\ many.rows = <<>> /\ ~many.nil
    /\ all.err = "" /\ all.rows = Deleted(S, c)
    /\ Len(all.rows) = Len(S) - Len(Matching(S, c))
    /\ Matching(S, c) = <<>> => del.db = db /\ all.rows = S

\* C15: Delete(P) removes every row that matches P and no other row:
\* afterwards QueryMany(P) is empty and the table holds, in their order and
\* unchanged, the records that did not match P; when P matches no row the
\* call returns success and the table is unchanged.
C15_DeleteFrame ==
    DeleteFrame(Table_Delete(db, NewTable, "ok", cl),
                Table_QueryMany(Table_Delete(db, NewTable, "ok", cl).db, NewTable, "ok", cl),
                Table_All(Table_Delete(db, NewTable, "ok", cl).db, NewTable, "ok"),
                abs.main, cl)

\* of three records, Delete(list contains "b") removes the last two and
\* keeps the first; in the same table Delete(name IN ()) matches nothing
C15_Witness ==
    /\ abs.main = <<Foos[1], Foos[3], Foos[4]>>
    /\ cl = TablePreds[10]
    /\ Table_Delete(db, NewTable, "ok", cl).err = ""
    /\ Table_Delete(db, NewTable, "ok", cl).count = 2
    /\ Table_All(Table_Delete(db, NewTable, "ok", cl).db, NewTable, "ok").rows = <<Foos[1]>>
    /\ Table_Delete(db, NewTable, "ok", TablePreds[8]).err = ""
    /\ Table_Delete(db, NewTable, "ok", TablePreds[8]).db = db

-----------------------------------------------------------------------------
(* Tables of several record types *)

\* the writes a caller can make on the table of T, as the databases they leave
TypedWrites(T) ==
    {Typed_Insert(db, T, f) : f \in TypeFoos}
    \cup {Typed_Update(db, T, pf[1], pf[2]) : pf \in TypePreds \X TypeFoos}
    \cup {Typed_Delete(db, T, p) : p \in TypePreds}

\* the write that left r did not change what the table of U holds
Untouched(r, U) ==
    /\ Typed_All(r.db, U).rows = Typed_All(db, U).rows
    /\ Typed_Count(r.db, U).count = Typed_Count(db, U).count

\* C16: tables bound to distinct record types are separate relations: an
\* Insert, Update or Delete on the table of one record type leaves the rows
\* and the Count of the table of every other record type unchanged.
C16_SeparateRelations ==
    \A T \in RecordTypes : \A U \in RecordTypes \ {T} :
        \A r \in TypedWrites(T) : Untouched(r, U)

-----------------------------------------------------------------------------
(* Count *)

\* Insert(foo) on the records S: one more row, the last, whatever S holds
InsertAppends(ins, all, cnt, S, foo) ==
    /\ ins.err = "" /\ ins.count = 1
    /\ all.err = "" /\ all.rows = Append(S, foo)
    /\ cnt.err = "" /\ cnt.count = Len(S) + 1

\* C17: Insert appends exactly one row per successful call and never merges
\* or rejects a record equal to one already stored; after any sequence of
\* Insert, Update and Delete calls Count() is the number of rows in the
\* table, which is the number of records inserted less the number deleted
\* (the length of abs.main).
C17_CountIsRows ==
    /\ Table_Count(db, NewTable, "ok").err = ""
    /\ Table_Count(db, NewTable, "ok").count = Len(db.rows)
    /\ Len(db.rows) = Len(abs.main)
    /\ \A f \in TableFoos :
          InsertAppends(Table_Insert(db, NewTable, "ok", Foos[f]),
                        Table_All(Table_Insert(db, NewTable, "ok", Foos[f]).db, NewTable, "ok"),
                        Table_Count(Table_Insert(db, NewTable, "ok", Foos[f]).db,
                                    NewTable, "ok"),
                        abs.main, Foos[f])

\* the table holds the same record twice, Count is 2, and a third Insert of
\* that record makes it 3
C17_Witness ==
    /\ abs.main = <<Foos[1], Foos[1]>>
    /\ Table_Count(db, NewTable, "ok").count = 2
    /\ Table_Count(Table_Insert(db, NewTable, "ok", Foos[1]).db, NewTable, "ok").count = 3

-----------------------------------------------------------------------------
(* Empty results *)

ManyOps == {"QueryMany", "QueryManyWithPagination", "All"}

\* the read c over the records S, none of which matches: an empty list that
\* is not nil, and no error
EmptyNotNil(c, S) ==
    c.op \in ManyOps /\ Matching(S, c.p) = <<>> =>
        c.err = "" /\ c.rows = <<>> /\ ~c.nil

\* C18: QueryMany, QueryManyWithPagination and All, on the Table and on the
\* view of an open transaction, return an empty non-nil list and no error
\* whenever no row matches, the empty table included.
C18_EmptyNotNil ==
    /\ \A c \in TableReads : EmptyNotNil(c, abs.main)
    /\ \A t \in Txs : Open(t) => \A c \in ViewReads(t) : EmptyNotNil(c, AbsView(abs, t))

-----------------------------------------------------------------------------
(* Tables and indexes *)

\* a call that succeeds and leaves the database d as it is
Repeats(r, d) == r.err = "" /\ r.db = d

\* CreateIndex once more after first succeeded: success, the same name, and
\* the database first left
RepeatsIndex(first, second) ==
    first.err = "" =>
        /\ Repeats(second, first.db)
        /\ second.name = first.name
        /\ HasIndex(first.db.indexes, first.name)
        /\ first.db.rows = db.rows /\ first.db.tables = db.tables

\* C19: CreateTable and CreateIndex are idempotent: once NewTable has created
\* the table, CreateTable returns success and changes nothing; once a
\* CreateIndex has succeeded, CreateIndex with the same fields returns
\* success and the same index name and leaves tables, indexes and rows
\* unchanged, any number of times.
C19_CreateIdempotent ==
    /\ Repeats(Table_CreateTable(db, NewTable, "ok"), db)
    /\ \A i \in 1..Len(IndexFields) :
          /\ RepeatsIndex(Table_CreateIndex(db, NewTable, "ok", IndexFields[i]),
                          Table_CreateIndex(
                              Table_CreateIndex(db, NewTable, "ok", IndexFields[i]).db,
                              NewTable, "ok", IndexFields[i]))
          /\ HasIndex(db.indexes, indexName(NewTable, IndexFields[i])) =>
                Repeats(Table_CreateIndex(db, NewTable, "ok", IndexFields[i]), db)

\* the table holds a row and the index on (id, bar.name): creating that
\* index again changes nothing, and the index on name, created for the
\* first time, is there when it is created once more
C19_Witness ==
    /\ db.rows # <<>>
    /\ HasIndex(db.indexes, indexName(NewTable, IndexFields[2]))
    /\ ~HasIndex(db.indexes, indexName(NewTable, IndexFields[1]))
    /\ Table_CreateIndex(db, NewTable, "ok", IndexFields[2]).db = db
    /\ Table_CreateIndex(db, NewTable, "ok", IndexFields[1]).err = ""
    /\ Table_CreateIndex(db, NewTable, "ok", IndexFields[1]).db # db
    /\ Table_CreateIndex(db, NewTable, "ok", IndexFields[1]).name = "idx_nosqlite_foo_name"

IndexErrors == {Canceled, Locked, "syntax error"}

NamesOf(L, from, to) == {indexName(NewTable, L[i]) : i \in from..to}
StoredIndexes(d) == {x.name : x \in d.indexes}

\* CreateIndexes(L...) returned r with the error of the k-th field-set
FailedAt(r, L, ctx, k) ==
    /\ \E e \in IndexErrors :
          /\ r.err = Errorf_fields(L[k], e)
          /\ Table_CreateIndex(r.db, NewTable, ctx, L[k]).err = e
    /\ \A i \in 1..(k - 1) : r.names[i] = indexName(NewTable, L[i])
    /\ NamesOf(L, 1, k - 1) \subseteq StoredIndexes(r.db)
    /\ StoredIndexes(r.db) \ StoredIndexes(db) \subseteq NamesOf(L, 1, k - 1)
    /\ \A i \in (k + 1)..Len(L) : r.names[i] = ""
    /\ r.issued <= k
    /\ r.db.rows = db.rows

CreateIndexesStops(r, L, ctx) ==
    /\ Len(r.names) = Len(L)
    /\ r.err = "" =>
          /\ \A i \in 1..Len(L) : r.names[i] = indexName(NewTable, L[i])
          /\ NamesOf(L, 1, Len(L)) \subseteq StoredIndexes(r.db)
          /\ r.issued = Len(L)
    /\ r.err # "" => \E k \in 1..Len(L) : FailedAt(r, L, ctx, k)

\* C20: CreateIndexes processes the field-sets in the given order and stops
\* at the first whose creation fails: the error it returns names that
\* field-set, the indexes of all earlier field-sets exist, and no statement
\* is issued and no index made for a later one; when none fails it returns
\* one index name per field-set, in order.
C20_CreateIndexesStops ==
    \A ctx \in Ctxs : \A k \in 1..Len(IndexSets) :
        CreateIndexesStops(Table_CreateIndexes(db, NewTable, ctx, IndexSets[k]),
                           IndexSets[k], ctx)

\* with no index made yet: of the sets (name), (broken path), (id, bar.name)
\* the first is indexed, the second fails and is named in the error, the
\* third is not tried; of the sets (name), (id, bar.name) both are indexed
C20_Witness ==
    /\ db.indexes = {} /\ db.rows # <<>>
    /\ Table_CreateIndexes(db, NewTable, "ok", IndexSets[4]).err
          = Errorf_fields(BrokenIndexFields, "syntax error")
    /\ StoredIndexes(Table_CreateIndexes(db, NewTable, "ok", IndexSets[4]).db)
          = {"idx_nosqlite_foo_name"}
    /\ Table_CreateIndexes(db, NewTable, "ok", IndexSets[4]).issued = 2
    /\ Table_CreateIndexes(db, NewTable, "ok", IndexSets[2]).err = ""
    /\ Table_CreateIndexes(db, NewTable, "ok", IndexSets[2]).names
          = <<"idx_nosqlite_foo_name", "idx_nosqlite_foo_id_bar__name">>

-----------------------------------------------------------------------------
(* Names *)

\* the record types of the tests with the table names the tests expect
NamedTypes ==
    {<<TypeName, "nosqlite_foo">>, <<IDOne, "nosqlite_idone">>, <<IDTwo, "nosqlite_idtwo">>}

\* an Insert through Table[*T] is a row of Table[T], and the other way round
SameRelation(T, f) ==
    /\ Typed_Insert(db, Pointer(T), f).err = ""
    /\ Typed_All(Typed_Insert(db, Pointer(T), f).db, T).rows
          = Append(Typed_All(db, T).rows, Foos[f])
    /\ Typed_All(Typed_Insert(db, T, f).db, Pointer(T)).rows
          = Append(Typed_All(db, Pointer(T)).rows, Foos[f])
    /\ Typed_Insert(db, Pointer(T), f).db = Typed_Insert(db, T, f).db

\* C21: the table name of a record type is its package-qualified type name
\* with every "." replaced by "_" and lowercased, and it is the same for a
\* value type and its pointer type: Foo and *Foo of package nosqlite both
\* give "nosqlite_foo", and Table[T] and Table[*T] address the same relation.
C21_TableName ==
    /\ \A Tn \in NamedTypes :
          tableName(Tn[1]) = Tn[2] /\ tableName(Pointer(Tn[1])) = Tn[2]
    /\ \A T \in RecordTypes : \A f \in TypeFoos : SameRelation(T, f)

\* the table of IDOne holds a row and that of IDTwo none: an Insert through
\* Table[*IDOne] makes the rows of Table[IDOne] two
C21_Witness ==
    /\ Len(db.rels[tableName(IDOne)]) = 1
    /\ db.rels[tableName(IDTwo)] = <<>>
    /\ tableName(Pointer(TypeName)) = "nosqlite_foo"
    /\ Len(Typed_All(Typed_Insert(db, Pointer(IDOne), 2).db, IDOne).rows) = 2
    /\ Typed_All(Typed_Insert(db, Pointer(IDOne), 2).db, IDTwo).rows = <<>>


\* field lists with the index names that TestTable_CreateIndex and
\* TestJoinEscapedFieldNames expect for the table nosqlite_foo
NamedIndexes ==
    {<<<<namePath, barNamePath>>, "idx_nosqlite_foo_name_bar__name">>,
     <<<<barNamePath, namePath>>, "idx_nosqlite_foo_bar__name_name">>,
     <<<<namePath>>, "idx_nosqlite_foo_name">>,
     <<<<idPath, barNamePath>>, "idx_nosqlite_foo_id_bar__name">>,
     <<<<namePath, <<"$", ".", "country">> >>, "idx_nosqlite_foo_name_country">>,
     <<<< <<"$", ".", "name", ".", "first", ".", "last">>, <<"$", ".", "country">> >>,
       "idx_nosqlite_foo_name__first__last_country">>,
     <<<< <<"$", ".", "name", ".", "first_last">>, <<"$", ".", "country">> >>,
       "idx_nosqlite_foo_name__first_last_country">>}

\* CreateIndex returns the name, also with its error, and on success the
\* engine holds an index of that name
ReturnsName(r, name) ==
    /\ r.name = name
    /\ r.err = "" => HasIndex(r.db.indexes, name)

\* C22: the index name returned by CreateIndex(fields...) is "idx_" + table
\* name + "_" + the escaped field paths joined by a single "_" in the given
\* order; for "$.name" and "$.bar.name" on nosqlite_foo it is
\* "idx_nosqlite_foo_name_bar__name", in every state and for every context.
C22_IndexName ==
    \A ctx \in Ctxs : \A ni \in NamedIndexes :
        ReturnsName(Table_CreateIndex(db, NewTable, ctx, ni[1]), ni[2])

\* an index on $.name exists and CreateIndex("$.name", "$.bar.name") adds
\* the index named as in the test
C22_Witness ==
    /\ HasIndex(db.indexes, "idx_nosqlite_foo_name")
    /\ ~HasIndex(db.indexes, "idx_nosqlite_foo_name_bar__name")
    /\ Table_CreateIndex(db, NewTable, "ok", <<namePath, barNamePath>>).err = ""
    /\ HasIndex(Table_CreateIndex(db, NewTable, "ok", <<namePath, barNamePath>>).db.indexes,
                "idx_nosqlite_foo_name_bar__name")


-----------------------------------------------------------------------------
(* Predicates without values or children *)

EmptyIn == In(namePath, <<>>)

\* the empty membership test alone: no error, no row
AloneMatchesNone(r) == r.err = "" /\ r.rows = <<>>

\* the empty membership test beside c, whose rows are r: under And no row,
\* under Or the rows of c
BesideMatchesNone(r, rAnd, rOr) ==
    r.err = "" =>
        /\ rAnd.err = "" /\ rAnd.rows = <<>>
        /\ rOr.err = "" /\ rOr.rows = r.rows

\* C23: In(field) with zero values renders a membership clause with no
\* placeholders and an empty Values() list; a query using it, alone or
\* inside And/Or, returns no error, and the clause itself matches no row.
C23_EmptyIn ==
    /\ Clause(EmptyIn)
          = <<"(", "data", "->>", "'", "$", ".", "name", "'", "IN", "(", ")", ")">>
    /\ Values(EmptyIn) = <<>>
    /\ \A path \in {idPath, namePath, listPath} :
          AloneMatchesNone(Table_QueryMany(db, NewTable, "ok", In(path, <<>>)))
    /\ BesideMatchesNone(Table_QueryMany(db, NewTable, "ok", cl),
                         Table_QueryMany(db, NewTable, "ok", And(<<EmptyIn, cl>>)),
                         Table_QueryMany(db, NewTable, "ok", Or(<<cl, EmptyIn>>)))

\* the table holds rows, the caller's predicate matches some of them, and
\* the empty membership test matches none
C23_Witness ==
    /\ Len(db.rows) >= 2
    /\ Table_QueryMany(db, NewTable, "ok", cl).err = ""
    /\ Table_QueryMany(db, NewTable, "ok", cl).rows # <<>>
    /\ Table_QueryMany(db, NewTable, "ok", EmptyIn).err = ""
    /\ Table_QueryMany(db, NewTable, "ok", EmptyIn).rows = <<>>


-----------------------------------------------------------------------------
(* Containment *)

\* the existence-subquery over json_each of $.list, as the tests expect it
ListSubquery ==
    <<"(", "EXISTS", "(", "SELECT", "1", "FROM", "json_each", "(",
      "data", "->>", "'", "$", ".", "list", "'",
      ")", "WHERE", "json_each.value", "=", "?", ")", ")">>

RECURSIVE Subqueries(_, _)
\* n subqueries with the combinator between them
Subqueries(n, combinator) ==
    IF n = 1 THEN ListSubquery
    ELSE ListSubquery \o <<combinator>> \o Subqueries(n - 1, combinator)

\* c, built from the values vs (two or more), renders one subquery for each
\* value inside one pair of parentheses and binds the values in order
RendersEach(c, vs, combinator) ==
    /\ Clause(c) = <<"(">> \o Subqueries(Len(vs), combinator) \o <<")">>
    /\ Placeholders(Clause(c)) = Len(vs)
    /\ Values(c) = vs

ClauseTriples == {<<u, v, w>> : u, v, w \in ClauseValues}

\* C24: ContainsAll(field, v1..vn) and ContainsAny(field, v1..vn) with
\* n >= 2 render n identical existence-subqueries over json_each of the
\* field, one placeholder each, joined by AND for ContainsAll and by OR for
\* ContainsAny inside one enclosing pair of parentheses, with Values() =
\* [v1..vn]; Contains(field, v) renders what ContainsAll(field, v) renders,
\* a single existence-subquery.
C24_Containment ==
    /\ (cl.kind = "contains" /\ Len(cl.values) >= 2)
          => /\ RendersEach(cl, made.vals, cl.combinator)
             /\ cl \in {ContainsAll(listPath, made.vals), ContainsAny(listPath, made.vals)}
    /\ \A vs \in ClauseTriples :
          /\ RendersEach(ContainsAll(listPath, vs), vs, "AND")
          /\ RendersEach(ContainsAny(listPath, vs), vs, "OR")
    /\ \A v \in ClauseValues :
          /\ Clause(Contains(listPath, v)) = ListSubquery
          /\ Clause(ContainsAll(listPath, <<v>>)) = ListSubquery
          /\ Values(Contains(listPath, v)) = <<v>>

\* the caller has built ContainsAny of two different values
C24_Witness ==
    /\ cl = ContainsAny(listPath, <<StrV(<<"a">>), IntV(2)>>)
    /\ made.vals = <<StrV(<<"a">>), IntV(2)>>
    /\ Clause(cl) = <<"(">> \o ListSubquery \o <<"OR">> \o ListSubquery \o <<")">>


-----------------------------------------------------------------------------
(* Well-formed predicates *)

RECURSIVE Depths(_, _, _)
\* TRUE if the parentheses of text from chunk i on, read at depth d, never
\* close more than was opened and end closed
Depths(text, i, d) ==
    IF i > Len(text) THEN d = 0
    ELSE IF text[i] = "(" THEN Depths(text, i + 1, d + 1)
    ELSE IF text[i] = ")" THEN d > 0 /\ Depths(text, i + 1, d - 1)
    ELSE Depths(text, i + 1, d)

\* a non-empty expression between balanced parentheses
Enclosed(text) ==
    /\ Len(text) > 2
    /\ text[1] = "(" /\ text[Len(text)] = ")"
    /\ Depths(text, 1, 0)

SyntaxErrors == {"syntax error"}

\* the predicate c is accepted alone and nested in a combinator
Accepted(c) ==
    /\ Table_QueryMany(db, NewTable, "ok", c).err \notin SyntaxErrors
    /\ Table_QueryMany(db, NewTable, "ok", And(<<c, Equal(idPath, IntV(1))>>)).err
          \notin SyntaxErrors
    /\ Table_QueryMany(db, NewTable, "ok", Or(<<Equal(idPath, IntV(1)), c>>)).err
          \notin SyntaxErrors

\* C25: every predicate, for every number of values or children including
\* zero, renders a non-empty boolean expression enclosed in balanced
\* parentheses, and used alone or nested in a combinator it gives a
\* statement that the engine accepts without a syntax error.
C25_WellFormed == Enclosed(Clause(cl)) /\ Accepted(cl)


RECURSIVE HasEmptyContains(_)
HasEmptyContains(c) ==
    IF c.kind = "contains" THEN c.values = <<>>
    ELSE IF c.kind = "combinator" THEN \E i \in 1..Len(c.clauses) : HasEmptyContains(c.clauses[i])
    ELSE FALSE
Adhoc25 == ~HasEmptyContains(cl) => C25_WellFormed
Adhoc25b == HasEmptyContains(cl) => ~C25_WellFormed


-----------------------------------------------------------------------------
(* Combinators without children *)

AlwaysTrue == <<"(", "1", "==", "1", ")">>

\* a combinator of no children: the always-true text and no values
RendersTrue(c) == Clause(c) = AlwaysTrue /\ Values(c) = <<>>

\* all is what All returned, many and either what QueryMany returned for
\* And() and for Or(): no error, and the records S
EveryRow(all, many, either, S) ==
    /\ all = many
    /\ all.err = "" /\ all.rows = S
    /\ either.err = "" /\ either.rows = S

\* C26: a combinator with zero children renders an always-true expression
\* with an empty Values() list, for And() as well as for Or(); All() is
\* And(), and Table.All and TableWithTx.All return exactly what QueryMany
\* returns for it, every visible row of the table.
C26_EmptyCombinator ==
    /\ RendersTrue(And(<<>>)) /\ RendersTrue(Or(<<>>))
    /\ All = And(<<>>)
    /\ EveryRow(Table_All(db, NewTable, "ok"),
                Table_QueryMany(db, NewTable, "ok", And(<<>>)),
                Table_QueryMany(db, NewTable, "ok", Or(<<>>)),
                SeenBy(db, ""))
    /\ \A t \in Txs : Open(t) =>
          EveryRow(TableWithTx_All(db, View(t), "ok"),
                   TableWithTx_QueryMany(db, View(t), "ok", And(<<>>)),
                   TableWithTx_QueryMany(db, View(t), "ok", Or(<<>>)),
                   SeenBy(db, t))

\* a transaction sees two rows where the table holds another number, and
\* All through its view returns the two
C26_Witness ==
    /\ Open("t1")
    /\ Len(SeenBy(db, "t1")) = 2
    /\ Len(SeenBy(db, "")) # 2
    /\ Len(TableWithTx_All(db, View("t1"), "ok").rows) = 2
    /\ Len(Table_All(db, NewTable, "ok").rows) = Len(db.rows)


-----------------------------------------------------------------------------
(* The values of comparisons *)

\* a value of each kind of type a comparison accepts: string, int, a sized
\* integer type, bool
TypedValues == {StrV(<<"a">>), IntV(3), Int64V(3), BoolV(TRUE)}
NumericValues == {IntV(3), Int64V(3)}

\* the records of S whose Id is n, in order
RECURSIVE WithId(_, _)
WithId(S, n) ==
    IF S = <<>> THEN <<>>
    ELSE (IF Head(S).Id = n THEN <<Head(S)>> ELSE <<>>) \o WithId(Tail(S), n)

\* the value types of constructor i of Comparisons: Equal and NotEqual take
\* string, number and bool, the orderings string and number, Like string
Takes(i, v) ==
    IF i \in {1, 2} THEN TRUE
    ELSE IF i = 7 THEN v.t = "string"
    ELSE v.t # "bool"

\* C27: for every comparison constructor and every value type it accepts,
\* Values() is a one-element list holding the caller's value itself with its
\* type unchanged, so that a numeric value is bound as a number and compares
\* equal to a numeric document field.
C27_ValuesKeepType ==
    /\ \A v \in TypedValues : \A i \in 1..7 :
          Takes(i, v) => Values(Comparisons(idPath, v)[i]) = <<v>>
    /\ \A v \in NumericValues :
          /\ Table_QueryMany(db, NewTable, "ok", Equal(idPath, v)).err = ""
          /\ Table_QueryMany(db, NewTable, "ok", Equal(idPath, v)).rows
                = WithId(SeenBy(db, ""), v.n)


-----------------------------------------------------------------------------
(* Field paths in index names *)

\* the path without its leading root marker "$.", if it has one
WithoutRoot(path) ==
    IF Len(path) >= 2 /\ path[1] = "$" /\ path[2] = "." THEN SubSeq(path, 3, Len(path))
    ELSE path

\* every "." of the path after the root marker as "__", every space as "_"
Escaped(path) == ReplaceAll(ReplaceAll(WithoutRoot(path), ".", "__"), " ", "_")

FieldPaths ==
    {idPath, namePath, barNamePath, <<"$", ".", "first", " ", "name">>,
     <<"id">>, <<"bar", ".", "name">>}

\* C28: for every field path, with or without the leading root marker "$.",
\* escapeFieldName returns the path with at most one leading root marker
\* removed, every remaining "." replaced by "__" and every space by "_"; a
\* path given without root marker, such as "id", keeps all of its segments
\* in the escaped name, and so in the name CreateIndex returns.
C28_EscapeFieldName ==
    /\ \A path \in FieldPaths : escapeFieldName(path) = Escaped(path)
    /\ \A k \in 1..Len(IndexLists) :
          Table_CreateIndex(db, NewTable, "ok", IndexLists[k]).name
              = Flat(<<"idx_", NewTable.Name, "_">> \o Escaped(IndexLists[k][1]))


-----------------------------------------------------------------------------
(* The index behind a name *)

\* the indexed expression data->>'field' as the engine keeps it
ColumnOf(field) == <<Word("data"), Word("->>"), Str(field)>>

\* after a successful CreateIndex(fields) with result r the table n owns an
\* index of the returned name on exactly the given fields, in their order
Covers(r, n, fields) ==
    r.err = "" =>
        \E x \in r.db.indexes :
            /\ x.name = r.name /\ x.table = n.Name
            /\ x.columns = [i \in 1..Len(fields) |-> ColumnOf(fields[i])]

\* C29: after CreateIndex(fields...) returns success, the table owns an
\* index, named by the returned name, that covers exactly the given field
\* paths in the given order, whatever indexes earlier CreateIndex calls with
\* other field lists created on the table.
C29_IndexCovers ==
    \A k \in 1..Len(IndexLists) :
        Covers(Table_CreateIndex(db, NewTable, "ok", IndexLists[k]), NewTable, IndexLists[k])


-----------------------------------------------------------------------------
(* Connection settings *)

Configured == [busy |-> TRUE, sync |-> TRUE, wal |-> TRUE]

\* C30: every engine connection on which a statement of a Table, a
\* Transaction or a TableWithTx is executed has had the busy-wait timeout,
\* the sync mode and the write-ahead-logging mode applied before that
\* statement runs, also a connection that the pool opens after
\* NewStoreWithDB returned.
C30_ConnectionsConfigured == \A r \in db.ran : r[2] = Configured

====
